---------------------------- MODULE Spec2Model ----------------------------
(***************************************************************************)
(* A model of the image pipeline of Agent_Image: the visual-complexity     *)
(* metric extraction (app/analyzer.py), the batch loops that call it       *)
(* (app/main.py, the analyzer's own script), the upload handler of the web *)
(* UI with the agent it drives (app/app.py, app/agent.py), the pipeline of *)
(* main.py from the images of data/raw to the agent, the download of       *)
(* images and the topic loop around it (app/ingestion.py) and the ordering *)
(* of the recommendations (app/app.py).  Each program has a specification  *)
(* of its own over the one file system.                                    *)
(*                                                                         *)
(* Representation.                                                         *)
(*  - An image is one row of pixels, a sequence of <<b, g, r>> triples of  *)
(*    8-bit values (cv2.imread always hands back 3 channels).  Its width   *)
(*    is the length of the row, its height 1.                              *)
(*  - A float the code rounds to d decimals is the record                  *)
(*    [v |-> n, d |-> d], standing for n / 10^d.  Rounding is to nearest,  *)
(*    ties to even, on the exact rational; the last-bit noise of binary    *)
(*    floating point is not modelled.                                      *)
(*  - A path is [dir, name, suffix]: name is the file name as the sequence *)
(*    of its dot-separated parts, suffix a literal tail glued to it.       *)
(***************************************************************************)
EXTENDS Integers, Sequences, FiniteSets, TLC

(***************************************************************************)
(* Bounds of the model.                                                    *)
(***************************************************************************)
\* the widest row of the images enumerated in full (Rows), in pixels
MaxWidth == 2
\* the longest list handed to a batch
MaxBatch == 3
\* the largest per_page asked of the search API
MaxPerPage == 2
\* the most photos one search response lists
MaxPhotos == 3
\* the longest list of boxes handed to the sort
MaxBoxes == 3
\* how many photos more than per_page a search response may list
MaxExcess == 2

(***************************************************************************)
(* Program constants.                                                      *)
(***************************************************************************)
\* analyzer.py: MAX_ENTROPY = 8.0
MAX_ENTROPY == 8
\* analyzer.py: sigma = 0.33, in hundredths
SigmaPct == 33
\* the largest 8-bit value, the clamp of the upper threshold
MaxGray == 255

\* ingestion.py, the script: its configuration
TARGET_TOPICS ==
    <<"digital marketing", "advertising sales", "shopping", "food", "health", "cosmetics">>
IMAGES_PER_TOPIC == 40
\* PORTRAIT_RATIO = 0.80, in hundredths
PortraitRatioPct == 80
PEXELS_HOURLY_LIMIT == 200
RATE_LIMIT_THRESHOLD == PEXELS_HOURLY_LIMIT - 20
ONE_HOUR_SECONDS == 3600
\* math.ceil(IMAGES_PER_TOPIC * PORTRAIT_RATIO)
num_portrait == (IMAGES_PER_TOPIC * PortraitRatioPct + 99) \div 100
num_landscape == IMAGES_PER_TOPIC - num_portrait

\* Python's None, and a value that is not None
None == [none |-> TRUE, val |-> <<>>]
Some(x) == [none |-> FALSE, val |-> x]

(***************************************************************************)
(* Arithmetic helpers.                                                     *)
(***************************************************************************)
Abs(x) == IF x < 0 THEN -x ELSE x
Min2(x, y) == IF x <= y THEN x ELSE y
Max2(x, y) == IF x >= y THEN x ELSE y

RECURSIVE Pow10(_)
Pow10(d) == IF d = 0 THEN 1 ELSE 10 * Pow10(d - 1)

\* round(num / den) for num >= 0, den > 0: nearest, ties to even (Python's
\* round and numpy's around)
RoundDiv(num, den) ==
    LET q == num \div den
        r == num % den
    IN  IF 2 * r < den THEN q
        ELSE IF 2 * r > den THEN q + 1
        ELSE IF q % 2 = 0 THEN q ELSE q + 1

RECURSIVE SumSeq(_)
SumSeq(s) == IF s = <<>> THEN 0 ELSE Head(s) + SumSeq(Tail(s))

\* the values of s as a set
Range(s) == {s[i] : i \in DOMAIN s}

\* how many positions of s hold x
Count(s, x) == Cardinality({i \in DOMAIN s : s[i] = x})

\* s in ascending order (np.sort inside np.median)
RECURSIVE Ascending(_)
Ascending(s) ==
    IF s = <<>> THEN <<>>
    ELSE LET m == CHOOSE x \in Range(s) : \A y \in Range(s) : x <= y
             i == CHOOSE j \in DOMAIN s : s[j] = m
         IN  <<m>> \o Ascending([k \in 1..(Len(s) - 1) |-> IF k < i THEN s[k] ELSE s[k + 1]])

\* 10^6 * log2(k), k = 1..16
Log2Micro ==
    << 0, 1000000, 1584963, 2000000, 2321928, 2584963, 2807355, 3000000,
       3169925, 3321928, 3459432, 3584963, 3700440, 3807355, 3906891, 4000000 >>

(***************************************************************************)
(* The library functions analyze_visual_complexity calls, on one-row       *)
(* images.                                                                 *)
(***************************************************************************)

\* cv2.cvtColor(img, COLOR_BGR2GRAY) on 8-bit data: the fixed-point luma
\* weights of OpenCV (R 4899, G 9617, B 1868, shift 14, rounded)
GrayOf(px) == (px[3] * 4899 + px[2] * 9617 + px[1] * 1868 + 8192) \div 16384

CvtColor(img) == [i \in DOMAIN img |-> GrayOf(img[i])]

\* one channel of the image: img[:, :, c]
Channel(img, c) == [i \in DOMAIN img |-> img[i][c]]

\* n*log2(n) - sum k*log2(k) over the value counts k, in 10^-6 bits:
\* n times the Shannon entropy of the values (skimage shannon_entropy:
\* np.unique counts, scipy entropy base 2)
EntropyTimesN(vals) ==
    LET n == Len(vals)
        ks == {<<x, Count(vals, x)>> : x \in Range(vals)}
        RECURSIVE SumK(_)
        SumK(S) == IF S = {} THEN 0
                   ELSE LET e == CHOOSE e \in S : TRUE
                        IN  e[2] * Log2Micro[e[2]] + SumK(S \ {e})
    IN  n * Log2Micro[n] - SumK(ks)

\* float(round(shannon_entropy(vals), 4))
ShannonEntropy4(vals) ==
    [v |-> RoundDiv(EntropyTimesN(vals), 100 * Len(vals)), d |-> 4]

\* a variant that takes the entropy of the first channel alone
FirstChannelEntropy4(img) == ShannonEntropy4(Channel(img, 1))

\* round(np.mean([shannon_entropy(channel) ...]), 4) over the three channels
MeanChannelEntropy4(img) ==
    [v |-> RoundDiv(EntropyTimesN(Channel(img, 1)) + EntropyTimesN(Channel(img, 2))
                      + EntropyTimesN(Channel(img, 3)), 300 * Len(img)),
     d |-> 4]

\* round(min(x / MAX_ENTROPY, 1.0), 4) for x with 4 decimals
NormalizeEntropy(x) == [v |-> Min2(RoundDiv(x.v, MAX_ENTROPY), 10000), d |-> 4]

\* twice np.median(gray): the middle value, or the sum of the two middle ones
Median2(gray) ==
    LET s == Ascending(gray)
        n == Len(s)
    IN  IF n % 2 = 1 THEN 2 * s[(n + 1) \div 2] ELSE s[n \div 2] + s[n \div 2 + 1]

\* lower = int(max(0, (1.0 - sigma) * median)), from twice the median
LowerRaw(m2) == Max2(0, ((100 - SigmaPct) * m2) \div 200)

\* upper = int(min(255, (1.0 + sigma) * median)), from twice the median
UpperOf(m2) == Min2(MaxGray, ((100 + SigmaPct) * m2) \div 200)

\* lower after `if lower >= upper: lower = max(0, upper - 1)`
LowerOf(m2) ==
    IF LowerRaw(m2) >= UpperOf(m2) THEN Max2(0, UpperOf(m2) - 1) ELSE LowerRaw(m2)

(***************************************************************************)
(* cv2.Canny(gray, lower, upper) on one row: 3x3 Sobel with replicated     *)
(* borders, L1 magnitude, non-maximum suppression along the gradient,      *)
(* double threshold, hysteresis.  With a single row every vertical         *)
(* derivative is 0, so each gradient is horizontal.                        *)
(***************************************************************************)

\* gray[x] with the border replicated
GrayAt(gray, x) == gray[Max2(1, Min2(Len(gray), x))]

\* a variant that pads the border with zeros (BORDER_CONSTANT) instead of
\* replicating it
MagnitudeZeroPadded(gray, x) ==
    4 * Abs((IF x + 1 \in DOMAIN gray THEN gray[x + 1] ELSE 0)
              - (IF x - 1 \in DOMAIN gray THEN gray[x - 1] ELSE 0))

\* |dx| + |dy|: the rows above and below replicate the row, so the Sobel
\* column weights 1, 2, 1 add up to 4 and dy is 0
Magnitude(gray, x) == 4 * Abs(GrayAt(gray, x + 1) - GrayAt(gray, x - 1))

\* the magnitude buffer, zero outside the image
MagAt(gray, x) == IF x \in DOMAIN gray THEN Magnitude(gray, x) ELSE 0

\* Canny swaps the thresholds when low > high
CannyLow(lower, upper) == Min2(lower, upper)
CannyHigh(lower, upper) == Max2(lower, upper)

\* a pixel that survives suppression: above the low threshold, greater than
\* its left neighbour and not smaller than its right one
Candidate(gray, lower, upper, x) ==
    /\ MagAt(gray, x) > CannyLow(lower, upper)
    /\ MagAt(gray, x) > MagAt(gray, x - 1)
    /\ MagAt(gray, x) >= MagAt(gray, x + 1)

Strong(gray, lower, upper, x) ==
    Candidate(gray, lower, upper, x) /\ MagAt(gray, x) > CannyHigh(lower, upper)

\* hysteresis: the candidates joined to a strong pixel through neighbouring
\* candidates
RECURSIVE Hysteresis(_, _, _, _)
Hysteresis(gray, lower, upper, marked) ==
    LET more == {x \in DOMAIN gray \ marked :
                    /\ Candidate(gray, lower, upper, x)
                    /\ \E y \in marked : Abs(x - y) = 1}
    IN  IF more = {} THEN marked
        ELSE Hysteresis(gray, lower, upper, marked \cup more)

\* the edge map: 255 on edge pixels, 0 elsewhere
Canny(gray, lower, upper) ==
    LET strong == {x \in DOMAIN gray : Strong(gray, lower, upper, x)}
        marked == Hysteresis(gray, lower, upper, strong)
    IN  [x \in DOMAIN gray |-> IF x \in marked THEN 255 ELSE 0]

\* a variant that adds up the values of the edge map (np.sum(edges)), 255
\* for each edge pixel
EdgeCountSummingValues(edges) == SumSeq(edges)

\* np.sum(edges > 0)
EdgeCount(edges) == Cardinality({x \in DOMAIN edges : edges[x] > 0})

\* a variant that rounds to 4 decimals
EdgeDensityFourDecimals(edge_count, pixel_count) ==
    IF pixel_count > 0
    THEN [v |-> RoundDiv(edge_count * 10000, pixel_count), d |-> 4]
    ELSE [v |-> 0, d |-> 4]

\* float(round(edge_count / pixel_count, 6) if pixel_count > 0 else 0)
EdgeDensity(edge_count, pixel_count) ==
    IF pixel_count > 0
    THEN [v |-> RoundDiv(edge_count * 1000000, pixel_count), d |-> 6]
    ELSE [v |-> 0, d |-> 6]

\* a variant that computes the sample variance (ddof=1), 0 for one pixel
Variance2Sample(gray) ==
    LET n == Len(gray)
        s1 == SumSeq(gray)
        s2 == SumSeq([i \in DOMAIN gray |-> gray[i] * gray[i]])
    IN  [v |-> IF n = 1 THEN 0 ELSE RoundDiv(100 * (n * s2 - s1 * s1), n * (n - 1)), d |-> 2]

\* float(round(np.var(gray), 2)): the population variance
\* (n * sum g^2 - (sum g)^2) / n^2
Variance2(gray) ==
    LET n == Len(gray)
        s1 == SumSeq(gray)
        s2 == SumSeq([i \in DOMAIN gray |-> gray[i] * gray[i]])
    IN  [v |-> RoundDiv(100 * (n * s2 - s1 * s1), n * n), d |-> 2]

\* round(min(variance / MAX_VARIANCE, 1.0), 4), MAX_VARIANCE = 255^2 / 4:
\* (v / 100) / (65025 / 4) * 10^4 = v * 400 / 65025 = v * 16 / 2601
NormalizeVariance(x) == [v |-> Min2(RoundDiv(x.v * 16, 2601), 10000), d |-> 4]

\* cv2.calcHist([gray], [0], None, [256], [0, 256]): the count of each of the
\* 256 values
CalcHist(gray) == [b \in 0..255 |-> Count(gray, b)]

\* the sum of f over the bins of S
RECURSIVE SumBins(_, _)
SumBins(f, S) ==
    IF S = {} THEN 0
    ELSE LET b == CHOOSE b \in S : TRUE IN f[b] + SumBins(f, S \ {b})

\* float(round(np.std(hist), 2)): with n = sum of the bins and q = sum of
\* their squares, std = sqrt(256 q - n^2) / 256; the result r is the integer
\* with (2r - 1) * 128 <= 100 * sqrt(256 q - n^2) < (2r + 1) * 128
HistStd2(hist) ==
    LET used == {b \in DOMAIN hist : hist[b] > 0}
        n == SumBins(hist, used)
        q == SumBins([b \in DOMAIN hist |-> hist[b] * hist[b]], used)
        X == 2500 * (256 * q - n * n)
    IN  [v |-> CHOOSE r \in 0..(7 * n + 1) :
                  /\ (r = 0 \/ (2 * r - 1) * (2 * r - 1) * 4096 <= X)
                  /\ X < (2 * r + 1) * (2 * r + 1) * 4096,
         d |-> 2]

(***************************************************************************)
(* Paths.                                                                  *)
(***************************************************************************)
RawDir == "data/raw"
ProcessedDir == "data/processed"

\* data/raw/a.jpg and data/raw/a.v1.jpg
ImgA == [dir |-> RawDir, name |-> <<"a", "jpg">>, suffix |-> ""]
ImgB == [dir |-> RawDir, name |-> <<"a", "v1", "jpg">>, suffix |-> ""]
ImagePaths == {ImgA, ImgB}

\* os.path.basename(path)
Basename(path) == [name |-> path.name, suffix |-> path.suffix]

\* all of s but its last element
Front(s) == SubSeq(s, 1, Len(s) - 1)

\* os.path.splitext(filename)[0]: the name without its last dot-part
SplitextBase(path) == IF Len(path.name) > 1 THEN Front(path.name) ELSE path.name

\* os.path.basename(img_path).split('.')[0]: the name up to its first dot
SplitDotFirst(path) == <<Head(path.name)>>

\* os.path.join(dir, f"{base}_metrics.json")
MetricsFile(base) == [dir |-> ProcessedDir, name |-> base, suffix |-> "_metrics.json"]

\* main.analyze_images: output_file
MainOutputFile(img_path) == MetricsFile(SplitDotFirst(img_path))

\* analyzer __main__: output_file
AnalyzerOutputFile(img_path) == MetricsFile(SplitextBase(img_path))

SidecarPaths ==
    {MainOutputFile(p) : p \in ImagePaths} \cup {AnalyzerOutputFile(p) : p \in ImagePaths}

\* the runs of app.process_uploaded_image that may overlap
Procs == {1, 2}

OutputDir == "data/output"
TmpDir == "/tmp"

\* tempfile.NamedTemporaryFile(delete=False, suffix=file_ext): a fresh name
\* for each call
TmpImage(p) ==
    [dir |-> TmpDir, name |-> <<IF p = 1 THEN "tmp1" ELSE "tmp2", "jpg">>, suffix |-> ""]

\* os.path.join(DEFAULT_PROCESSED_DIR, "temp_metrics.json")
TempMetrics == MetricsFile(<<"temp">>)

\* os.path.basename(metrics_json_path).replace("_metrics.json", ""): the
\* name without the suffix _metrics.json, the whole name when the path has
\* no such suffix
MetricsBase(path) == path.name

\* the files of the agent, in data/output
AnalysisFile(base) == [dir |-> OutputDir, name |-> base, suffix |-> "_analysis.json"]
BoxesFile(base) == [dir |-> OutputDir, name |-> base, suffix |-> "_boxes.json"]
ProcessedFile(base) == [dir |-> OutputDir, name |-> base, suffix |-> "_processed.png"]

\* os.path.join(DEFAULT_OUTPUT_DIR, "temp_analysis.json")
TempAnalysis == AnalysisFile(<<"temp">>)

UploadPaths ==
    {TempMetrics, TempAnalysis, AnalysisFile(MetricsBase(TempMetrics))}
      \cup {TmpImage(p) : p \in Procs}
      \cup {BoxesFile(SplitDotFirst(TmpImage(p))) : p \in Procs}
      \cup {ProcessedFile(SplitDotFirst(TmpImage(p))) : p \in Procs}

\* data/raw/b.jpg
ImgC == [dir |-> RawDir, name |-> <<"b", "jpg">>, suffix |-> ""]

\* the files glob finds in data/raw when main.py runs
RawImages == ImagePaths \cup {ImgC}

\* the files main.py and the agent it calls may write for them
MainPaths ==
    {ImgC} \cup {MainOutputFile(p) : p \in RawImages}
      \cup {AnalysisFile(MetricsBase(MainOutputFile(p))) : p \in RawImages}
      \cup {BoxesFile(SplitDotFirst(p)) : p \in RawImages}
      \cup {ProcessedFile(SplitDotFirst(p)) : p \in RawImages}

AllPaths == ImagePaths \cup SidecarPaths \cup UploadPaths \cup MainPaths

(***************************************************************************)
(* Files.  An image file decodes to its row of pixels; a corrupt file is   *)
(* one the decoder rejects; a text file holds the tokens of a JSON object. *)
(***************************************************************************)
Absent == [kind |-> "absent"]
Corrupt == [kind |-> "corrupt"]
ImageFile(pixels) == [kind |-> "image", pixels |-> pixels]
TextFile(text) == [kind |-> "text", text |-> text]

\* the files of the agent: the model's analysis, labelled with the metrics
\* it was asked about; the boxes it answered; the annotated image
AnalysisText(about) == [kind |-> "analysis", about |-> about]
BoxesText(boxes) == [kind |-> "boxes", boxes |-> boxes]
Png(pixels) == [kind |-> "png", pixels |-> pixels]

Black == <<0, 0, 0>>
White == <<255, 255, 255>>
Red == <<0, 0, 255>>
Palette == {Black, White, Red}

\* the rows of 1..MaxWidth pixels
Rows == UNION {[1..w -> Palette] : w \in 1..MaxWidth}

\* a row of three pixels with one step from black to white
Thirds == <<Black, White, White>>

\* os.path.exists(path)
Exists(files, path) == files[path].kind # "absent"

\* cv2.imread(path): the pixel rows it can hand back, None when the file
\* does not decode.  For a file that decodes to no pixel at all both an
\* empty array and None are allowed.
Imread(files, path) ==
    LET f == files[path]
    IN  IF f.kind = "image"
        THEN IF f.pixels = <<>> THEN {None, Some(<<>>)} ELSE {Some(f.pixels)}
        ELSE {None}

(***************************************************************************)
(* The metrics dictionary: a sequence of <<key, value>> pairs in insertion *)
(* order; a value is a float, an int or a string.                          *)
(***************************************************************************)
FloatVal(x) == [t |-> "float", v |-> x.v, d |-> x.d]
IntVal(n) == [t |-> "int", v |-> n, d |-> 0]
StrVal(s) == [t |-> "str", s |-> s]

DictKeys(dict) == {dict[i][1] : i \in DOMAIN dict}
DictGet(dict, key) == dict[CHOOSE i \in DOMAIN dict : dict[i][1] = key][2]

\* a number v / 10^d in lowest terms of ten
RECURSIVE Canonical(_)
Canonical(x) ==
    IF x.d > 0 /\ x.v % 10 = 0
    THEN Canonical([v |-> x.v \div 10, d |-> x.d - 1])
    ELSE [v |-> x.v, d |-> x.d]

\* Python's == on two values: numbers by value, strings by content
ValueEq(a, b) ==
    IF a.t = "str" \/ b.t = "str"
    THEN a.t = b.t /\ a.s = b.s
    ELSE Canonical(a) = Canonical(b)

\* Python's == on two dicts: the same keys with equal values, in any order
DictEq(x, y) ==
    /\ DictKeys(x) = DictKeys(y)
    /\ Len(x) = Len(y)
    /\ \A k \in DictKeys(x) : ValueEq(DictGet(x, k), DictGet(y, k))

\* a variant without the key edge_density_normalized
BuildRecordWithoutEdgeDensityNormalized(path, l) ==
    << <<"filename", StrVal(Basename(path))>>,
       <<"image_size", StrVal([w |-> l.width, h |-> l.height])>>,
       <<"entropy", FloatVal(l.entropy)>>,
       <<"color_entropy", FloatVal(l.color_entropy)>>,
       <<"edge_count", IntVal(l.edge_count)>>,
       <<"edge_density", FloatVal(l.edge_density)>>,
       <<"color_variance", FloatVal(l.variance)>>,
       <<"histogram_std", FloatVal(l.hist_std)>>,
       <<"entropy_normalized", FloatVal(l.entropy_normalized)>>,
       <<"color_entropy_normalized", FloatVal(l.color_entropy_normalized)>>,
       <<"color_variance_normalized", FloatVal(l.variance_normalized)>> >>

\* the dict analyze_visual_complexity returns, from its locals
BuildRecord(path, l) ==
    << <<"filename", StrVal(Basename(path))>>,
       <<"image_size", StrVal([w |-> l.width, h |-> l.height])>>,
       <<"entropy", FloatVal(l.entropy)>>,
       <<"color_entropy", FloatVal(l.color_entropy)>>,
       <<"edge_count", IntVal(l.edge_count)>>,
       <<"edge_density", FloatVal(l.edge_density)>>,
       <<"color_variance", FloatVal(l.variance)>>,
       <<"histogram_std", FloatVal(l.hist_std)>>,
       <<"entropy_normalized", FloatVal(l.entropy_normalized)>>,
       <<"color_entropy_normalized", FloatVal(l.color_entropy_normalized)>>,
       <<"edge_density_normalized", FloatVal(l.edge_density)>>,
       <<"color_variance_normalized", FloatVal(l.variance_normalized)>> >>

\* a variant of pop that leaves the dict as it is
PopNothing(dict, key) == dict

\* dict.pop(key, default): the dict without the key, present or not
Pop(dict, key) == SelectSeq(dict, LAMBDA e : e[1] # key)

\* the record analyze_visual_complexity builds for the decoded row img
RecordOf(path, img) ==
    LET gray == CvtColor(img)
        entropy == ShannonEntropy4(gray)
        m2 == Median2(gray)
        edge_count == EdgeCount(Canny(gray, LowerOf(m2), UpperOf(m2)))
        variance == Variance2(gray)
        color_entropy == MeanChannelEntropy4(img)
    IN  BuildRecord(path,
            [width |-> Len(img), height |-> 1,
             entropy |-> entropy, entropy_normalized |-> NormalizeEntropy(entropy),
             edge_count |-> edge_count, edge_density |-> EdgeDensity(edge_count, Len(img)),
             variance |-> variance, variance_normalized |-> NormalizeVariance(variance),
             hist_std |-> HistStd2(CalcHist(gray)),
             color_entropy |-> color_entropy,
             color_entropy_normalized |-> NormalizeEntropy(color_entropy)])

\* analyze_visual_complexity(path) taken as one step: the values it can
\* return, None when a check fails or a library call raises
AnalyzeResults(files, path) ==
    IF ~Exists(files, path) THEN {None}
    ELSE {None} \cup {Some(RecordOf(path, d.val)) :
                        d \in {e \in Imread(files, path) : ~e.none /\ e.val # <<>>}}

(***************************************************************************)
(* JSON text.  The text of an object is the sequence of its members        *)
(* <<key, literal>> in the order written; a number literal is the          *)
(* sequence of its characters, a string literal carries the string.        *)
(***************************************************************************)
DigitChars == <<"0", "1", "2", "3", "4", "5", "6", "7", "8", "9">>

DigitChar(k) == DigitChars[k + 1]
DigitValue(c) == (CHOOSE i \in DOMAIN DigitChars : DigitChars[i] = c) - 1

\* the decimal digits of n >= 0, no leading zero
RECURSIVE IntDigits(_)
IntDigits(n) ==
    IF n < 10 THEN <<DigitChar(n)>> ELSE IntDigits(n \div 10) \o <<DigitChar(n % 10)>>

\* the d digits of f < 10^d, leading zeros kept
RECURSIVE FracDigits(_, _)
FracDigits(f, d) ==
    IF d = 0 THEN <<>> ELSE FracDigits(f \div 10, d - 1) \o <<DigitChar(f % 10)>>

\* trailing zeros dropped, one digit kept
RECURSIVE StripZeros(_)
StripZeros(cs) ==
    IF Len(cs) > 1 /\ cs[Len(cs)] = "0" THEN StripZeros(Front(cs)) ELSE cs

\* a variant that writes two decimals ("%.2f")
FloatReprTwoDecimals(x) ==
    LET y == RoundDiv(x.v * 100, Pow10(x.d))
    IN  IntDigits(y \div 100) \o <<".">> \o FracDigits(y % 100, 2)

\* float.__repr__ for the values of the record (none below 10^-4, where
\* Python turns to exponent notation): the shortest decimal that reads back
FloatRepr(x) ==
    IntDigits(x.v \div Pow10(x.d)) \o <<".">> \o StripZeros(FracDigits(x.v % Pow10(x.d), Max2(x.d, 1)))

\* json's encoding of one value
EncodeValue(val) ==
    IF val.t = "str" THEN [lex |-> "string", s |-> val.s]
    ELSE IF val.t = "int" THEN [lex |-> "number", chars |-> IntDigits(val.v)]
    ELSE [lex |-> "number", chars |-> FloatRepr(val)]

\* json.dump(metrics_data, f, indent=4, ensure_ascii=False)
JsonDump(dict) == [i \in DOMAIN dict |-> <<dict[i][1], EncodeValue(dict[i][2])>>]

\* the number a digit sequence spells
RECURSIVE DigitsValue(_)
DigitsValue(cs) ==
    IF cs = <<>> THEN 0 ELSE 10 * DigitsValue(Front(cs)) + DigitValue(cs[Len(cs)])

\* json's decoding of a number literal: a float when it has a fraction, an
\* int otherwise
DecodeNumber(cs) ==
    IF \E i \in DOMAIN cs : cs[i] = "."
    THEN LET dot == CHOOSE i \in DOMAIN cs : cs[i] = "."
             whole == SubSeq(cs, 1, dot - 1)
             frac == SubSeq(cs, dot + 1, Len(cs))
         IN  [t |-> "float", v |-> DigitsValue(whole) * Pow10(Len(frac)) + DigitsValue(frac),
              d |-> Len(frac)]
    ELSE [t |-> "int", v |-> DigitsValue(cs), d |-> 0]

DecodeValue(lit) ==
    IF lit.lex = "string" THEN [t |-> "str", s |-> lit.s] ELSE DecodeNumber(lit.chars)

\* json.load(f)
JsonLoad(text) == [i \in DOMAIN text |-> <<text[i][1], DecodeValue(text[i][2])>>]

\* save_metrics_to_json(metrics_data, output_path): the file system after
\* it.  makedirs or open raising OSError is caught and leaves the file as
\* it was; otherwise the file is replaced by the dump.
SaveMetricsToJson(files, metrics_data, output_path, io) ==
    IF io = "ok"
    THEN [files EXCEPT ![output_path] = TextFile(JsonDump(metrics_data))]
    ELSE files

\* what save_metrics_to_json logs
SaveLog(output_path, io) ==
    IF io = "ok"
    THEN [level |-> "info", msg |-> "Metrics successfully saved to", path |-> output_path]
    ELSE [level |-> "error", msg |-> "Error writing JSON file", path |-> output_path]

(***************************************************************************)
(* State.                                                                  *)
(***************************************************************************)
VARIABLES
    fs,               \* the file system: path -> file
    op,               \* the script that runs: "idle", "analyze_images",
                      \* "analyzer_main", and the same with "_done" once over
    image_paths,      \* the list the batch loop walks
    idx,              \* position of the loop in it, from 1
    metrics,          \* the loop's local: what the last call returned
    metric_paths,     \* main.analyze_images: the list it returns
    processed_count,  \* analyzer __main__
    error_count,      \* analyzer __main__
    apc,              \* position inside analyze_visual_complexity
    img_path,         \* its argument
    loc,              \* its locals assigned so far: name -> value
    ret,              \* its return value
    raised,           \* the exception that leaves it, "none" when none does
    log,              \* the log lines of the current iteration
    attempts,         \* history: the arguments of the calls of this batch
    succ,             \* history: whether each of them returned a record
    memo,             \* history: path -> first record returned for it, with
                      \* the file it was computed from
    reported,         \* history: for each failed call, the line it logged and
                      \* the value its caller got
    run,              \* app.process_uploaded_image, one record for each run:
                      \* its position, its locals, what agent.process_image
                      \* did for it
    fetch,            \* ingestion.fetch_and_save_images: its position, its
                      \* arguments and locals, and the requests really sent
    sorting,          \* app.sort_recommendations_by_impact: its argument and
                      \* its result
    pipeline,         \* main.py from the images of data/raw to the agent: its
                      \* position, and the history of what it paired
    topics            \* the topic loop of ingestion.py run as a script: its
                      \* position, its counter and its clock

vars == <<fs, op, image_paths, idx, metrics, metric_paths, processed_count,
          error_count, apc, img_path, loc, ret, raised, log, attempts, succ, memo,
          reported, run, fetch, sorting, pipeline, topics>>

\* the state of the other programs
others == <<run, fetch, sorting, pipeline, topics>>

\* everything outside the frame of analyze_visual_complexity but the files
loopVars == <<op, image_paths, idx, metrics, metric_paths, processed_count,
              error_count, attempts, succ, memo, reported, others>>

\* the state of the batch loops and of the call they make
batchVars == <<op, image_paths, idx, metrics, metric_paths, processed_count,
               error_count, apc, img_path, loc, ret, raised, log, attempts, succ, memo,
               reported>>

NoPath == [dir |-> "", name |-> <<>>, suffix |-> ""]

NoMemo == [none |-> TRUE, val |-> <<>>, file |-> Absent]

NoLocals == [n \in {} |-> 0]

\* the locals that hold a statistic of the image
StatNames ==
    {"gray", "entropy", "entropy_normalized", "median_value", "lower", "upper",
     "edges", "edge_count", "edge_density", "variance", "variance_normalized",
     "hist", "hist_std", "color_entropy", "color_entropy_normalized"}

LogLine(level, msg, path) == [level |-> level, msg |-> msg, path |-> path]

\* the files the runs start from: no sidecar yet
StartFs(a, b) ==
    [p \in AllPaths |-> IF p = ImgA THEN a ELSE IF p = ImgB THEN b ELSE Absent]

\* the result of agent.process_image: (analysis_json_path,
\* processed_image_path)
NoResult == [analysis |-> None, image |-> None]

\* a run of process_uploaded_image that has not begun
NoRun ==
    [pc |-> "idle", image_path |-> NoPath, metrics |-> None, saved |-> FALSE,
     metrics_json_path |-> NoPath, forwarded |-> None, stages |-> <<>>, failed |-> "",
     result |-> NoResult, returned |-> None, touched |-> {}, written |-> None]

\* fetch_and_save_images is not running
NoFetch ==
    [pc |-> "idle", api_key |-> "", per_page |-> 0, photos |-> 0, k |-> 0,
     download_count |-> 0, requests_made |-> 0, issued |-> 0, files_written |-> 0,
     ret |-> 0]

\* sort_recommendations_by_impact is not running
NoSorting == [pc |-> "idle", boxes_data |-> None, result |-> <<>>]

\* main.py has not begun; origin is, for each sidecar, the image whose
\* record this run wrote to it last
NoPipeline ==
    [pc |-> "idle", mode |-> "", i |-> 0,
     origin |-> [s \in {MainOutputFile(p) : p \in RawImages} |-> None],
     kept |-> {}, calls |-> <<>>, results |-> <<>>]

\* the topic loop has not begun; elapsed_time is the time since
\* hour_start_time, in seconds; exceeded tells whether a call returned more
\* than the estimate 1 + per_page
NoTopics ==
    [pc |-> "idle", topic |-> 0, requests_this_hour |-> 0, elapsed_time |-> 0,
     wait_time |-> 0, waited |-> FALSE, exceeded |-> FALSE]

\* everything but the files and the runs of the upload
notUpload == <<batchVars, fetch, sorting, pipeline, topics>>

\* no batch runs
BatchIdle ==
    /\ op = "idle"
    /\ image_paths = <<>>
    /\ idx = 1
    /\ metrics = None
    /\ metric_paths = <<>>
    /\ processed_count = 0
    /\ error_count = 0
    /\ apc = "idle"
    /\ img_path = NoPath
    /\ loc = NoLocals
    /\ ret = None
    /\ raised = "none"
    /\ log = <<>>
    /\ attempts = <<>>
    /\ succ = <<>>
    /\ memo = [p \in ImagePaths |-> NoMemo]
    /\ reported = {}

InitRest ==
    /\ BatchIdle
    /\ run = [p \in Procs |-> NoRun]
    /\ fetch = NoFetch
    /\ sorting = NoSorting
    /\ pipeline = NoPipeline
    /\ topics = NoTopics

\* a few files of every kind under both names
Init ==
    /\ \E a \in {Absent, Corrupt, ImageFile(<<>>), ImageFile(<<Red, White>>), ImageFile(<<Black>>)},
          b \in {Absent, Corrupt, ImageFile(<<White, Black>>)} :
          fs = StartFs(a, b)
    /\ InitRest

\* every image of the palette under the first name, and the row Thirds
InitImages ==
    /\ \E a \in {ImageFile(r) : r \in Rows} \cup {Corrupt, ImageFile(<<>>), ImageFile(Thirds)} :
          fs = StartFs(a, Absent)
    /\ InitRest

(***************************************************************************)
(* analyze_visual_complexity(img_path), statement by statement.            *)
(***************************************************************************)

\* a return of the function: `return None` after logging, or the record
Return(value, lines) ==
    /\ ret' = value
    /\ log' = log \o lines
    /\ apc' = "returned"

\* a variant without the existence check
CheckExistsSkipped ==
    /\ apc = "exists"
    /\ apc' = "imread"
    /\ UNCHANGED <<fs, loc, ret, log, raised, loopVars, img_path>>

\* if not os.path.exists(img_path): log, return None
CheckExists ==
    /\ apc = "exists"
    /\ IF Exists(fs, img_path)
       THEN apc' = "imread" /\ UNCHANGED <<ret, log>>
       ELSE Return(None, <<LogLine("error", "Image not found", img_path)>>)
    /\ UNCHANGED <<fs, loc, raised, loopVars, img_path>>

\* img = cv2.imread(img_path); if img is None: log, return None
LoadImage ==
    /\ apc = "imread"
    /\ \E decoded \in Imread(fs, img_path) :
          IF decoded = None
          THEN Return(None, <<LogLine("error", "Could not load image", img_path)>>)
                 /\ UNCHANGED loc
          ELSE /\ loc' = loc @@ ("img" :> decoded.val)
               /\ apc' = "shape"
               /\ UNCHANGED <<ret, log>>
    /\ UNCHANGED <<fs, raised, loopVars, img_path>>

\* a variant that converts to grayscale before it looks at the pixel count
CheckShapeAfterGray ==
    /\ apc = "shape"
    /\ LET height == IF Len(loc.img) = 0 THEN 0 ELSE 1
           width == Len(loc.img)
           pixel_count == height * width
       IN  /\ loc' = loc @@ ("height" :> height) @@ ("width" :> width)
                          @@ ("pixel_count" :> pixel_count) @@ ("gray" :> CvtColor(loc.img))
           /\ IF pixel_count = 0
              THEN Return(None, <<LogLine("error", "Invalid image dimensions (0 pixels)", img_path)>>)
              ELSE apc' = "cvtColor" /\ UNCHANGED <<ret, log>>
    /\ UNCHANGED <<fs, raised, loopVars, img_path>>

\* height, width = img.shape[:2]; pixel_count; if pixel_count == 0: log,
\* return None
CheckShape ==
    /\ apc = "shape"
    /\ LET height == IF Len(loc.img) = 0 THEN 0 ELSE 1
           width == Len(loc.img)
           pixel_count == height * width
       IN  IF pixel_count = 0
           THEN Return(None, <<LogLine("error", "Invalid image dimensions (0 pixels)", img_path)>>)
                  /\ UNCHANGED loc
           ELSE /\ loc' = loc @@ ("height" :> height) @@ ("width" :> width)
                               @@ ("pixel_count" :> pixel_count)
                /\ apc' = "cvtColor"
                /\ UNCHANGED <<ret, log>>
    /\ UNCHANGED <<fs, raised, loopVars, img_path>>

\* one statement that only assigns locals and goes on
Assign(here, next, new) ==
    /\ apc = here
    /\ loc' = loc @@ new
    /\ apc' = next
    /\ UNCHANGED <<fs, ret, raised, log, loopVars, img_path>>

\* a variant that converts into a buffer kept between calls and reads the
\* previous call's pixels from it when there was one
ToGrayStaleBuffer ==
    LET n == Len(attempts)
        before == IF n > 1 /\ fs[attempts[n - 1]].kind = "image"
                             /\ Len(fs[attempts[n - 1]].pixels) = Len(loc.img)
                  THEN fs[attempts[n - 1]].pixels
                  ELSE loc.img
    IN  Assign("cvtColor", "entropy", "gray" :> CvtColor(before))

\* gray = cv2.cvtColor(img, cv2.COLOR_BGR2GRAY)
ToGray == Assign("cvtColor", "entropy", "gray" :> CvtColor(loc.img))

\* entropy, entropy_normalized
ComputeEntropy ==
    LET entropy == ShannonEntropy4(loc.gray)
    IN  Assign("entropy", "thresholds",
               ("entropy" :> entropy) @@ ("entropy_normalized" :> NormalizeEntropy(entropy)))

\* median_value, lower, upper, with the adjustment of lower
ComputeThresholds ==
    LET m2 == Median2(loc.gray)
    IN  Assign("thresholds", "canny",
               ("median_value" :> m2) @@ ("lower" :> LowerOf(m2)) @@ ("upper" :> UpperOf(m2)))

\* edges, edge_count, edge_density
ComputeEdges ==
    LET edges == Canny(loc.gray, loc.lower, loc.upper)
        edge_count == EdgeCount(edges)
    IN  Assign("canny", "variance",
               ("edges" :> edges) @@ ("edge_count" :> edge_count)
                 @@ ("edge_density" :> EdgeDensity(edge_count, loc.pixel_count)))

\* variance, variance_normalized
ComputeVariance ==
    LET variance == Variance2(loc.gray)
    IN  Assign("variance", "hist",
               ("variance" :> variance) @@ ("variance_normalized" :> NormalizeVariance(variance)))

\* hist, hist_std
ComputeHist ==
    LET hist == CalcHist(loc.gray)
    IN  Assign("hist", "color_entropy", ("hist" :> hist) @@ ("hist_std" :> HistStd2(hist)))

\* color_entropy: the image read by cv2.imread has three channels, so the
\* branch taken is the mean of the channel entropies
ComputeColorEntropy ==
    LET color_entropy == MeanChannelEntropy4(loc.img)
    IN  Assign("color_entropy", "build",
               ("color_entropy" :> color_entropy)
                 @@ ("color_entropy_normalized" :> NormalizeEntropy(color_entropy)))

\* a variant that also writes the sidecar before it returns
ReturnRecordWritingSidecar ==
    /\ apc = "build"
    /\ Return(Some(BuildRecord(img_path, loc)), <<>>)
    /\ fs' = SaveMetricsToJson(fs, BuildRecord(img_path, loc), MainOutputFile(img_path), "ok")
    /\ UNCHANGED <<loc, raised, loopVars, img_path>>

\* return { ... }
ReturnRecord ==
    /\ apc = "build"
    /\ Return(Some(BuildRecord(img_path, loc)), <<>>)
    /\ UNCHANGED <<fs, loc, raised, loopVars, img_path>>

\* the statements inside the try block that call into a library
LibrarySteps ==
    {"imread", "cvtColor", "entropy", "thresholds", "canny", "variance", "hist",
     "color_entropy"}

\* a variant with the `except cv2.error` clause alone: any other exception
\* leaves the function
HandlerCvOnly(exc) ==
    IF exc = "cv2.error"
    THEN [ret |-> None, raised |-> "none", msg |-> "OpenCV error analyzing"]
    ELSE [ret |-> None, raised |-> exc, msg |-> "Traceback"]

\* the two except clauses: what the caller gets for an exception raised in
\* the try block.  Both log and return None; nothing is raised further.
Handler(exc) ==
    IF exc = "cv2.error"
    THEN [ret |-> None, raised |-> "none", msg |-> "OpenCV error analyzing"]
    ELSE [ret |-> None, raised |-> "none", msg |-> "Unexpected error analyzing"]

\* a library call raises: cv2.error from OpenCV, any other Exception from
\* numpy or skimage
Raise(exc) ==
    /\ apc \in LibrarySteps
    /\ Return(Handler(exc).ret, <<LogLine("error", Handler(exc).msg, img_path)>>)
    /\ raised' = Handler(exc).raised
    /\ UNCHANGED <<fs, loc, loopVars, img_path>>

AnalyzeVisualComplexity ==
    \/ CheckExists
    \/ LoadImage
    \/ CheckShape
    \/ ToGray
    \/ ComputeEntropy
    \/ ComputeThresholds
    \/ ComputeEdges
    \/ ComputeVariance
    \/ ComputeHist
    \/ ComputeColorEntropy
    \/ ReturnRecord
    \/ \E exc \in {"cv2.error", "Exception"} : Raise(exc)

(***************************************************************************)
(* The batch loops.                                                        *)
(***************************************************************************)

\* the lists of at most n elements of S
SeqsUpTo(S, n) == UNION {[1..k -> S] : k \in 0..n}

\* the orders in which os.listdir can hand back the files of S
Orders(S) == {s \in [1..Cardinality(S) -> S] : Range(s) = S}

\* Python's truth value of what analyze_visual_complexity returned
Truthy(x) == ~x.none /\ x.val # <<>>

\* main.analyze_images(image_paths) is called
StartAnalyzeImages ==
    /\ op = "idle"
    /\ \E paths \in SeqsUpTo(ImagePaths, MaxBatch) : image_paths' = paths
    /\ op' = "analyze_images"
    /\ idx' = 1
    /\ metric_paths' = <<>>
    /\ UNCHANGED <<fs, metrics, processed_count, error_count, apc, img_path, loc, ret,
                   raised, log, attempts, succ, memo, reported, others>>

\* analyzer.py runs as a script: the image files of data/raw, as listed
StartAnalyzerMain ==
    /\ op = "idle"
    /\ \E files \in Orders({p \in ImagePaths : Exists(fs, p)}) : image_paths' = files
    /\ op' = "analyzer_main"
    /\ idx' = 1
    /\ processed_count' = 0
    /\ error_count' = 0
    /\ UNCHANGED <<fs, metrics, metric_paths, apc, img_path, loc, ret, raised, log,
                   attempts, succ, memo, reported, others>>

\* the loop takes the next image and calls analyze_visual_complexity on it
LoopCall ==
    /\ op \in {"analyze_images", "analyzer_main"}
    /\ apc = "idle"
    /\ idx <= Len(image_paths)
    /\ img_path' = image_paths[idx]
    /\ apc' = "exists"
    /\ loc' = NoLocals
    /\ ret' = None
    /\ log' = <<>>
    /\ attempts' = Append(attempts, image_paths[idx])
    /\ UNCHANGED <<fs, op, image_paths, idx, metrics, metric_paths, processed_count,
                   error_count, raised, succ, memo, reported, others>>

\* metrics = analyze_visual_complexity(img_path): the call is over, the
\* callee's frame is gone, the history is extended
EndCall ==
    /\ apc = "returned"
    /\ raised = "none"
    /\ metrics' = ret
    /\ apc' = "idle"
    /\ loc' = NoLocals
    /\ ret' = None
    /\ reported' = IF ret.none
                   THEN reported \cup {[msg |-> log[Len(log)].msg, value |-> ret]}
                   ELSE reported
    /\ succ' = Append(succ, ~ret.none)
    /\ memo' = IF ~ret.none /\ memo[img_path].none
               THEN [memo EXCEPT ![img_path] =
                        [none |-> FALSE, val |-> ret.val, file |-> fs[img_path]]]
               ELSE memo
    /\ UNCHANGED <<op, image_paths, img_path, raised, attempts, others>>

\* a variant that leaves the loop at the first failure
AnalyzeImagesStepStopping ==
    /\ op = "analyze_images"
    /\ EndCall
    /\ IF Truthy(ret)
       THEN \E io \in {"ok", "oserror"} :
              /\ fs' = SaveMetricsToJson(fs, ret.val, MainOutputFile(img_path), io)
              /\ metric_paths' = Append(metric_paths, MainOutputFile(img_path))
              /\ log' = log \o <<SaveLog(MainOutputFile(img_path), io),
                                 LogLine("info", "Generated metrics for", img_path)>>
              /\ idx' = idx + 1
       ELSE /\ log' = Append(log, LogLine("error", "Failed to analyze", img_path))
            /\ idx' = Len(image_paths) + 1
            /\ UNCHANGED <<fs, metric_paths>>
    /\ UNCHANGED <<processed_count, error_count>>

\* main.analyze_images, after the call: save and append, or log the failure
AnalyzeImagesStep ==
    /\ op = "analyze_images"
    /\ EndCall
    /\ IF Truthy(ret)
       THEN \E io \in {"ok", "oserror"} :
              /\ fs' = SaveMetricsToJson(fs, ret.val, MainOutputFile(img_path), io)
              /\ metric_paths' = Append(metric_paths, MainOutputFile(img_path))
              /\ log' = log \o <<SaveLog(MainOutputFile(img_path), io),
                                 LogLine("info", "Generated metrics for", img_path)>>
       ELSE /\ log' = Append(log, LogLine("error", "Failed to analyze", img_path))
            /\ UNCHANGED <<fs, metric_paths>>
    /\ idx' = idx + 1
    /\ UNCHANGED <<processed_count, error_count>>

\* analyzer __main__, after the call: save and count, or count the error
AnalyzerMainStep ==
    /\ op = "analyzer_main"
    /\ EndCall
    /\ IF Truthy(ret)
       THEN \E io \in {"ok", "oserror"} :
              /\ fs' = SaveMetricsToJson(fs, ret.val, AnalyzerOutputFile(img_path), io)
              /\ processed_count' = processed_count + 1
              /\ log' = Append(log, SaveLog(AnalyzerOutputFile(img_path), io))
              /\ UNCHANGED error_count
       ELSE /\ log' = Append(log, LogLine("warning", "Skipping analysis for", img_path))
            /\ error_count' = error_count + 1
            /\ UNCHANGED <<fs, processed_count>>
    /\ idx' = idx + 1
    /\ UNCHANGED metric_paths

\* the loop is over: analyze_images returns metric_paths, the script ends
LoopExit ==
    /\ op \in {"analyze_images", "analyzer_main"}
    /\ apc = "idle"
    /\ idx > Len(image_paths)
    /\ op' = IF op = "analyze_images" THEN "analyze_images_done" ELSE "analyzer_main_done"
    /\ UNCHANGED <<fs, image_paths, idx, metrics, metric_paths, processed_count,
                   error_count, apc, img_path, loc, ret, raised, log, attempts, succ, memo,
                   reported, others>>

Next ==
    \/ StartAnalyzeImages
    \/ StartAnalyzerMain
    \/ LoopCall
    \/ AnalyzeVisualComplexity
    \/ AnalyzeImagesStep
    \/ AnalyzerMainStep
    \/ LoopExit

Spec == Init /\ [][Next]_vars

SpecImages == InitImages /\ [][Next]_vars

(***************************************************************************)
(* app.process_uploaded_image(uploaded_file) and, inside it,               *)
(* ImageAgent.process_image(image_path, metrics_path).  Streamlit serves   *)
(* each session from a thread of its own, so two runs may overlap; a step  *)
(* is one call that reads or writes files.                                 *)
(***************************************************************************)

\* the files a user may upload
Uploads == {ImageFile(<<Black>>), ImageFile(<<Red, White>>), Corrupt}

\* a sidecar left in data/processed by hand, without the key filename
Leftover == TextFile(JsonDump(<< <<"entropy", FloatVal([v |-> 0, d |-> 4])>> >>))

\* the boxes the model answers when it answers some
SomeBoxes == << [label |-> "titulo", impact |-> "High"] >>

\* (None, None, None, None)
AllNone == [metrics |-> None, analysis_result |-> None, processed_image_path |-> None,
            boxes_data |-> None]

\* the stages of process_image
StageOrder ==
    <<"analyze_metrics", "generate_bounding_boxes", "visualize_bounding_boxes",
      "save_processed_image">>

\* run p goes on with the fields of new changed
SetRun(p, new) == run' = [run EXCEPT ![p] = new @@ run[p]]

\* a stage of process_image is over: it is recorded, and a failed one makes
\* process_image return (None, None)
StageDone(p, stage, ok, next, new) ==
    SetRun(p, new @@ [stages |-> Append(run[p].stages, stage),
                      failed |-> IF ok THEN run[p].failed ELSE stage,
                      pc |-> IF ok THEN next ELSE "agent_returned"])

\* with tempfile.NamedTemporaryFile(delete=False, ...) as tmp_file: the
\* file is created, then the upload is written to it.  A write that raises
\* ("oserror", say a full disk) leaves the file behind, cut short, and the
\* exception leaves process_uploaded_image: the try has not begun
UploadStart(p) ==
    /\ run[p].pc = "idle"
    /\ \E file \in Uploads, io \in {"ok", "oserror"} :
          IF io = "ok"
          THEN /\ fs' = [fs EXCEPT ![TmpImage(p)] = file]
               /\ SetRun(p, [pc |-> "analyze", image_path |-> TmpImage(p),
                             touched |-> {TmpImage(p)}])
          ELSE /\ fs' = [fs EXCEPT ![TmpImage(p)] = Corrupt]
               /\ SetRun(p, [pc |-> "raised", touched |-> {TmpImage(p)}])
    /\ UNCHANGED notUpload

\* metrics = analyze_visual_complexity(image_path); if not metrics: return
UploadAnalyze(p) ==
    /\ run[p].pc = "analyze"
    /\ \E m \in AnalyzeResults(fs, run[p].image_path) :
          IF Truthy(m)
          THEN SetRun(p, [pc |-> "save", metrics |-> m])
          ELSE SetRun(p, [pc |-> "finally", returned |-> Some(AllNone)])
    /\ UNCHANGED <<fs, notUpload>>

\* save_metrics_to_json(metrics, metrics_path), metrics_path the fixed
\* temp_metrics.json; then agent.process_image is entered with it
UploadSave(p) ==
    /\ run[p].pc = "save"
    /\ \E io \in {"ok", "oserror"} :
          /\ fs' = SaveMetricsToJson(fs, run[p].metrics.val, TempMetrics, io)
          /\ SetRun(p, [pc |-> "analyze_metrics", saved |-> io = "ok",
                        metrics_json_path |-> TempMetrics,
                        touched |-> run[p].touched \cup {TempMetrics}])
    /\ UNCHANGED notUpload

\* Step 1, analyze_metrics(metrics_json_path): load the sidecar, drop
\* filename, ask the model, write <base>_analysis.json.  The call to the
\* model may raise ("api_error"), the write may ("oserror"), and the answer
\* may fail validation after it was written ("invalid_result"); every
\* exception is caught and gives None
AnalyzeMetricsStep(p) ==
    LET path == run[p].metrics_json_path
        result_path == AnalysisFile(MetricsBase(path))
    IN  /\ run[p].pc = "analyze_metrics"
        /\ IF fs[path].kind # "text"
           THEN /\ StageDone(p, "analyze_metrics", FALSE, "", [touched |-> run[p].touched \cup {path}])
                /\ UNCHANGED fs
           ELSE \E outcome \in {"ok", "api_error", "invalid_result", "oserror"} :
                  LET sent == Pop(JsonLoad(fs[path].text), "filename")
                  IN  /\ fs' = IF outcome \in {"ok", "invalid_result"}
                               THEN [fs EXCEPT ![result_path] = AnalysisText(sent)]
                               ELSE fs
                      /\ StageDone(p, "analyze_metrics", outcome = "ok",
                                   "generate_bounding_boxes",
                                   [forwarded |-> Some(sent),
                                    written |-> IF outcome \in {"ok", "invalid_result"}
                                                THEN Some(result_path) ELSE None,
                                    touched |-> run[p].touched \cup {path, result_path}])
        /\ UNCHANGED notUpload

\* Step 2, generate_bounding_boxes(image_path, ...): Image.open raises on
\* a file that is no image, before the model is asked; the raw answer is
\* written to <base>_boxes.json before it is validated; an empty list, an
\* answer that does not validate ("unparsable") and an exception ("error")
\* all count as failure
GenerateBoxesStep(p) ==
    LET box_json_path == BoxesFile(SplitDotFirst(run[p].image_path))
    IN  /\ run[p].pc = "generate_bounding_boxes"
        /\ \E outcome \in {"ok", "empty", "unparsable", "error"} :
              /\ fs[run[p].image_path].kind # "image" => outcome = "error"
              /\ fs' = IF outcome = "ok" THEN [fs EXCEPT ![box_json_path] = BoxesText(SomeBoxes)]
                       ELSE IF outcome = "empty" THEN [fs EXCEPT ![box_json_path] = BoxesText(<<>>)]
                       ELSE IF outcome = "unparsable" THEN [fs EXCEPT ![box_json_path] = Corrupt]
                       ELSE fs
              /\ StageDone(p, "generate_bounding_boxes", outcome = "ok",
                           "visualize_bounding_boxes",
                           [touched |-> run[p].touched \cup {run[p].image_path, box_json_path}])
        /\ UNCHANGED notUpload

\* a variant that goes on to save when visualize_bounding_boxes gave None
VisualizeStepIgnoringFailure(p) ==
    /\ run[p].pc = "visualize_bounding_boxes"
    /\ \E ok \in BOOLEAN :
          SetRun(p, [stages |-> Append(run[p].stages, "visualize_bounding_boxes"),
                     failed |-> IF ok THEN run[p].failed ELSE "visualize_bounding_boxes",
                     pc |-> "save_processed_image"])
    /\ UNCHANGED <<fs, notUpload>>

\* Step 3, visualize_bounding_boxes(image_path, boxes): the image with the
\* boxes drawn, None when it raises
VisualizeStep(p) ==
    /\ run[p].pc = "visualize_bounding_boxes"
    /\ \E ok \in BOOLEAN :
          StageDone(p, "visualize_bounding_boxes", ok, "save_processed_image", << >>)
    /\ UNCHANGED <<fs, notUpload>>

\* Step 4, processed_image.save(processed_image_path), and the return of
\* (temp_analysis.json, processed_image_path); an exception of save is
\* caught and gives (None, None)
SaveProcessedStep(p) ==
    LET processed_image_path == ProcessedFile(SplitDotFirst(run[p].image_path))
    IN  /\ run[p].pc = "save_processed_image"
        /\ \E io \in {"ok", "oserror"} :
              /\ fs' = IF io = "ok"
                       THEN [fs EXCEPT ![processed_image_path] = Png(fs[run[p].image_path].pixels)]
                       ELSE fs
              /\ StageDone(p, "save_processed_image", io = "ok", "agent_returned",
                           [result |-> IF io = "ok"
                                       THEN [analysis |-> Some(TempAnalysis),
                                             image |-> Some(processed_image_path)]
                                       ELSE NoResult,
                            touched |-> run[p].touched \cup {processed_image_path}])
        /\ UNCHANGED notUpload

\* back in process_uploaded_image: give up when the agent gave None, else
\* load the analysis and the boxes and return them
UploadAfterAgent(p) ==
    LET analysis_path == run[p].result.analysis
        boxes_json_path == BoxesFile(SplitDotFirst(run[p].image_path))
    IN  /\ run[p].pc = "agent_returned"
        /\ IF analysis_path.none \/ run[p].result.image.none
           THEN SetRun(p, [pc |-> "finally", returned |-> Some(AllNone)])
           ELSE IF fs[analysis_path.val].kind # "analysis"
                   \/ fs[boxes_json_path].kind \notin {"absent", "boxes"}
           THEN SetRun(p, [pc |-> "finally", returned |-> Some(AllNone),
                           touched |-> run[p].touched \cup {analysis_path.val}])
           ELSE SetRun(p, [pc |-> "finally",
                           returned |-> Some([metrics |-> run[p].metrics,
                                              analysis_result |-> Some(fs[analysis_path.val].about),
                                              processed_image_path |-> run[p].result.image,
                                              boxes_data |-> IF fs[boxes_json_path].kind = "boxes"
                                                             THEN Some(fs[boxes_json_path].boxes)
                                                             ELSE None]),
                           touched |-> run[p].touched \cup {analysis_path.val, boxes_json_path}])
        /\ UNCHANGED <<fs, notUpload>>

\* finally: if os.path.exists(image_path): os.unlink(image_path)
UploadFinally(p) ==
    /\ run[p].pc = "finally"
    /\ fs' = [fs EXCEPT ![run[p].image_path] = Absent]
    /\ SetRun(p, [pc |-> "done"])
    /\ UNCHANGED notUpload

\* process_image(image_path, metrics_json_path): the caller hands over the
\* path of the sidecar, so the path is not inferred from the image's name
ProcessImage(p) ==
    \/ AnalyzeMetricsStep(p)
    \/ GenerateBoxesStep(p)
    \/ VisualizeStep(p)
    \/ SaveProcessedStep(p)

ProcessUploadedImage(p) ==
    \/ UploadStart(p)
    \/ UploadAnalyze(p)
    \/ UploadSave(p)
    \/ ProcessImage(p)
    \/ UploadAfterAgent(p)
    \/ UploadFinally(p)

\* no upload yet; data/processed may hold a sidecar written by hand
InitUpload ==
    /\ \E old \in {Absent, Leftover} :
          fs = [q \in AllPaths |-> IF q = TempMetrics THEN old ELSE Absent]
    /\ InitRest

NextUpload == \E p \in Procs : ProcessUploadedImage(p)

SpecUpload == InitUpload /\ [][NextUpload]_vars

(***************************************************************************)
(* main.py: run_full_pipeline after the ingestion, and                     *)
(* process_existing_images.  Both analyse the images glob found in         *)
(* data/raw, then hand image_paths and metric_paths to process_with_agent, *)
(* which calls agent.process_image for them one after the other.           *)
(***************************************************************************)

\* the variables of the analyzer's frame and of its own script
frameVars == <<metrics, processed_count, error_count, apc, img_path, loc, ret, raised,
               log, succ, memo, reported>>

\* the pipeline goes on with the fields of new changed
SetPipeline(new) == pipeline' = new @@ pipeline

\* image_paths = glob.glob(...): the files of data/raw in any order; with
\* none, both functions return at once
MainStart ==
    /\ op = "idle"
    /\ pipeline.pc = "idle"
    /\ \E mode \in {"run_full_pipeline", "process_existing_images"},
          files \in Orders({p \in RawImages : Exists(fs, p)}) :
          /\ image_paths' = files
          /\ op' = mode
          /\ SetPipeline([pc |-> IF files = <<>> THEN "done" ELSE "analyze", mode |-> mode])
    /\ idx' = 1
    /\ metric_paths' = <<>>
    /\ UNCHANGED <<fs, frameVars, attempts, run, fetch, sorting, topics>>

\* metrics = analyze_visual_complexity(img_path); if metrics: save it to
\* metric_path and append the path
AnalyzeAndSave(img, metric_path) ==
    /\ attempts' = Append(attempts, img)
    /\ \E m \in AnalyzeResults(fs, img) :
          IF Truthy(m)
          THEN \E io \in {"ok", "oserror"} :
                 /\ fs' = SaveMetricsToJson(fs, m.val, metric_path, io)
                 /\ metric_paths' = Append(metric_paths, metric_path)
                 /\ SetPipeline([origin |-> IF io = "ok"
                                            THEN [pipeline.origin EXCEPT ![metric_path] = Some(img)]
                                            ELSE pipeline.origin])
          ELSE UNCHANGED <<fs, metric_paths, pipeline>>

\* one turn of `for img_path in image_paths` in analyze_images
AnalyzeImagesTurn ==
    /\ pipeline.pc = "analyze"
    /\ pipeline.mode = "run_full_pipeline"
    /\ idx <= Len(image_paths)
    /\ AnalyzeAndSave(image_paths[idx], MainOutputFile(image_paths[idx]))
    /\ idx' = idx + 1
    /\ UNCHANGED <<op, image_paths, frameVars, run, fetch, sorting, topics>>

\* a variant that analyses every image, sidecar or not
ProcessExistingTurnAnalysingAll ==
    /\ pipeline.pc = "analyze"
    /\ pipeline.mode = "process_existing_images"
    /\ idx <= Len(image_paths)
    /\ AnalyzeAndSave(image_paths[idx], MainOutputFile(image_paths[idx]))
    /\ idx' = idx + 1
    /\ UNCHANGED <<op, image_paths, frameVars, run, fetch, sorting, topics>>

\* one turn of `for img_path in image_paths` in process_existing_images:
\* an image whose sidecar exists is not analysed, its sidecar is appended
ProcessExistingTurn ==
    LET img == image_paths[idx]
        metric_path == MainOutputFile(img)
    IN  /\ pipeline.pc = "analyze"
        /\ pipeline.mode = "process_existing_images"
        /\ idx <= Len(image_paths)
        /\ IF Exists(fs, metric_path)
           THEN /\ metric_paths' = Append(metric_paths, metric_path)
                /\ SetPipeline([kept |-> pipeline.kept \cup {idx}])
                /\ UNCHANGED <<fs, attempts>>
           ELSE AnalyzeAndSave(img, metric_path)
        /\ idx' = idx + 1
        /\ UNCHANGED <<op, image_paths, frameVars, run, fetch, sorting, topics>>

\* the loop is over.  run_full_pipeline returns when metric_paths is empty;
\* otherwise process_with_agent(image_paths, metric_paths) is called
StartProcessWithAgent ==
    /\ pipeline.pc = "analyze"
    /\ idx > Len(image_paths)
    /\ IF pipeline.mode = "run_full_pipeline" /\ metric_paths = <<>>
       THEN SetPipeline([pc |-> "done"])
       ELSE SetPipeline([pc |-> "agent", i |-> 0])
    /\ UNCHANGED <<fs, batchVars, run, fetch, sorting, topics>>

\* one turn of `for i, img_path in enumerate(image_paths)`: without a
\* metric_paths[i], continue; else agent.process_image(img_path,
\* metric_paths[i]) is entered
AgentLoopCall ==
    LET i == pipeline.i
        img == image_paths[i + 1]
    IN  /\ pipeline.pc = "agent"
        /\ i < Len(image_paths)
        /\ IF i >= Len(metric_paths)
           THEN /\ SetPipeline([i |-> i + 1])
                /\ UNCHANGED run
           ELSE /\ SetPipeline([pc |-> "process_image",
                                calls |-> Append(pipeline.calls,
                                                 [image |-> img,
                                                  metrics_json_path |-> metric_paths[i + 1],
                                                  origin |-> pipeline.origin[metric_paths[i + 1]]])])
                /\ run' = [run EXCEPT ![1] = [pc |-> "analyze_metrics", image_path |-> img,
                                              metrics_json_path |-> metric_paths[i + 1]]
                                             @@ NoRun]
        /\ UNCHANGED <<fs, batchVars, fetch, sorting, topics>>

\* analysis_path, processed_image_path = agent.process_image(...): the
\* call is over, its result is logged, the loop goes on
AgentLoopReturn ==
    /\ pipeline.pc = "process_image"
    /\ run[1].pc = "agent_returned"
    /\ SetPipeline([pc |-> "agent", i |-> pipeline.i + 1,
                    results |-> Append(pipeline.results,
                                       [result |-> run[1].result, written |-> run[1].written])])
    /\ run' = [run EXCEPT ![1] = NoRun]
    /\ UNCHANGED <<fs, batchVars, fetch, sorting, topics>>

\* process_with_agent returns
AgentLoopEnd ==
    /\ pipeline.pc = "agent"
    /\ pipeline.i >= Len(image_paths)
    /\ SetPipeline([pc |-> "done"])
    /\ UNCHANGED <<fs, batchVars, run, fetch, sorting, topics>>

\* process_with_agent(image_paths, metric_paths)
ProcessWithAgent ==
    \/ AgentLoopCall
    \/ pipeline.pc = "process_image" /\ ProcessImage(1)
    \/ AgentLoopReturn
    \/ AgentLoopEnd

\* a sidecar left by an earlier run
OldSidecar == TextFile(JsonDump(<< <<"filename", StrVal("old")>> >>))

\* data/raw holds up to three files, one of which may not decode;
\* data/processed may hold the sidecar of b.jpg
InitMain ==
    /\ \E a \in {Absent, ImageFile(<<Black>>)},
          b \in {Absent, ImageFile(<<White, Black>>)},
          c \in {Absent, Corrupt, ImageFile(<<Red, White>>)},
          old \in {Absent, OldSidecar} :
          fs = [q \in AllPaths |-> IF q = ImgA THEN a
                                   ELSE IF q = ImgB THEN b
                                   ELSE IF q = ImgC THEN c
                                   ELSE IF q = MainOutputFile(ImgC) THEN old
                                   ELSE Absent]
    /\ InitRest

NextMain ==
    \/ MainStart
    \/ AnalyzeImagesTurn
    \/ ProcessExistingTurn
    \/ StartProcessWithAgent
    \/ ProcessWithAgent

SpecMain == InitMain /\ [][NextMain]_vars

(***************************************************************************)
(* ingestion.fetch_and_save_images(api_key, query, per_page, ...).  The    *)
(* files it saves are counted, not named.                                  *)
(***************************************************************************)

\* fetch goes on with the fields of new changed
SetFetch(new) == fetch' = new @@ fetch

\* return requests_made
FetchReturn(new) == SetFetch([pc |-> "returned", ret |-> (new @@ fetch).requests_made] @@ new)

\* the call: requests_made = 0; without a key, return 0 at once
FetchCall ==
    /\ fetch.pc = "idle"
    /\ \E api_key \in {"", "key"}, per_page \in 1..MaxPerPage :
          IF api_key = ""
          THEN FetchReturn([api_key |-> api_key, per_page |-> per_page, requests_made |-> 0])
          ELSE SetFetch([pc |-> "search", api_key |-> api_key, per_page |-> per_page,
                         requests_made |-> 0])
    /\ UNCHANGED <<fs, batchVars, run, sorting, pipeline, topics>>

\* response = requests.get(search_url, ...); requests_made += 1;
\* raise_for_status(); photos = response.json().get('photos', []).  A get
\* that raises ("timeout") skips the increment; an error status and a body
\* that is no JSON raise after it; every exception ends the call, which
\* returns requests_made; so does an empty list of photos
FetchSearch ==
    /\ fetch.pc = "search"
    /\ \E outcome \in {"ok", "timeout", "http_error", "bad_json"}, n \in 0..MaxPhotos :
          LET sent == [issued |-> fetch.issued + 1,
                       requests_made |-> IF outcome = "timeout" THEN fetch.requests_made
                                         ELSE fetch.requests_made + 1]
          IN  IF outcome = "ok" /\ n > 0
              THEN SetFetch([pc |-> "download", photos |-> n, k |-> 1, download_count |-> 0]
                              @@ sent)
              ELSE FetchReturn(sent)
    /\ UNCHANGED <<fs, batchVars, run, sorting, pipeline, topics>>

\* one turn of `for photo in photos`, below the safeguard: the download
\* request, the increment, raise_for_status(), the write of the file.  A
\* get that raises ("timeout") skips the increment; it, an error status
\* and a failed write are caught inside the loop, which goes on; a photo
\* without 'id' or 'src' ("malformed") raises KeyError, which ends the call
FetchDownload ==
    /\ fetch.pc = "download"
    /\ fetch.k <= fetch.photos
    /\ fetch.download_count < fetch.per_page
    /\ \E outcome \in {"ok", "timeout", "http_error", "ioerror", "malformed"} :
          IF outcome = "malformed"
          THEN FetchReturn(<< >>)
          ELSE SetFetch([k |-> fetch.k + 1,
                         issued |-> fetch.issued + 1,
                         requests_made |-> IF outcome = "timeout" THEN fetch.requests_made
                                           ELSE fetch.requests_made + 1,
                         download_count |-> IF outcome = "ok" THEN fetch.download_count + 1
                                            ELSE fetch.download_count,
                         files_written |-> IF outcome = "ok" THEN fetch.files_written + 1
                                           ELSE fetch.files_written])
    /\ UNCHANGED <<fs, batchVars, run, sorting, pipeline, topics>>

\* the loop is over, by the end of the list or by the safeguard
\* `if download_count >= per_page: break`; return requests_made
FetchLoopEnd ==
    /\ fetch.pc = "download"
    /\ fetch.k > fetch.photos \/ fetch.download_count >= fetch.per_page
    /\ FetchReturn(<< >>)
    /\ UNCHANGED <<fs, batchVars, run, sorting, pipeline, topics>>

InitIngest ==
    /\ fs = [q \in AllPaths |-> Absent]
    /\ InitRest

NextIngest ==
    \/ FetchCall
    \/ FetchSearch
    \/ FetchDownload
    \/ FetchLoopEnd

SpecIngest == InitIngest /\ [][NextIngest]_vars

(***************************************************************************)
(* ingestion.py run as a script: the loop over TARGET_TOPICS with its      *)
(* count of the requests of the current hour.  A call of                   *)
(* fetch_and_save_images is one step of the loop.                          *)
(***************************************************************************)

\* what fetch_and_save_images(per_page) may return when the search
\* response lists `listed` photos: 0 when the search request raised, else
\* 1 and one more for each download request that came back; the loop stops
\* at per_page downloads saved, so with failures every photo listed may be
\* asked for
FetchReturns(per_page, listed) ==
    {r \in 0..(1 + listed) : r <= 1 \/ per_page > 0}

\* the whole seconds a call of fetch_and_save_images may take
Durations == {0, 1800}

\* the topic loop goes on with the fields of new changed
SetTopics(new) == topics' = new @@ topics

\* requests_this_hour = 0; hour_start_time = time.time()
TopicsStart ==
    /\ topics.pc = "idle"
    /\ SetTopics([pc |-> "check", topic |-> 1, requests_this_hour |-> 0, elapsed_time |-> 0])
    /\ UNCHANGED <<fs, batchVars, run, fetch, sorting, pipeline>>

\* the rate limit check at the head of the loop: the counter is reset when
\* the hour has passed; when the topic's estimate would take the counter
\* over the threshold, the script sleeps to the end of the hour and resets
TopicCheck ==
    LET passed == topics.elapsed_time > ONE_HOUR_SECONDS
        requests_this_hour == IF passed THEN 0 ELSE topics.requests_this_hour
        elapsed_time == IF passed THEN 0 ELSE topics.elapsed_time
        estimated_requests == (1 + num_portrait) + (1 + num_landscape)
    IN  /\ topics.pc = "check"
        /\ topics.topic <= Len(TARGET_TOPICS)
        /\ IF requests_this_hour + estimated_requests > RATE_LIMIT_THRESHOLD
           THEN SetTopics([pc |-> "portrait", wait_time |-> ONE_HOUR_SECONDS - elapsed_time,
                           waited |-> TRUE, requests_this_hour |-> 0,
                           elapsed_time |-> 0])
           ELSE SetTopics([pc |-> "portrait", requests_this_hour |-> requests_this_hour,
                           elapsed_time |-> elapsed_time])
        /\ UNCHANGED <<fs, batchVars, run, fetch, sorting, pipeline>>

\* reqs = fetch_and_save_images(per_page = n, ...); requests_this_hour +=
\* reqs, when n > 0; `after` is the time slept after it
TopicFetch(n, next_pc, next_topic, after) ==
    \E d \in Durations,
       reqs \in IF n > 0
                THEN UNION {FetchReturns(n, listed) : listed \in 0..(n + MaxExcess)}
                ELSE {0} :
        SetTopics([pc |-> next_pc, topic |-> next_topic,
                   requests_this_hour |-> topics.requests_this_hour + reqs,
                   elapsed_time |-> topics.elapsed_time + d + after,
                   exceeded |-> topics.exceeded \/ reqs > 1 + n])

\* the portrait images of the topic
TopicFetchPortrait ==
    /\ topics.pc = "portrait"
    /\ TopicFetch(num_portrait, "landscape", topics.topic, 0)
    /\ UNCHANGED <<fs, batchVars, run, fetch, sorting, pipeline>>

\* the landscape images of the topic, then time.sleep(2) and the next topic
TopicFetchLandscape ==
    /\ topics.pc = "landscape"
    /\ TopicFetch(num_landscape, "check", topics.topic + 1, 2)
    /\ UNCHANGED <<fs, batchVars, run, fetch, sorting, pipeline>>

\* the loop is over
TopicsEnd ==
    /\ topics.pc = "check"
    /\ topics.topic > Len(TARGET_TOPICS)
    /\ SetTopics([pc |-> "done"])
    /\ UNCHANGED <<fs, batchVars, run, fetch, sorting, pipeline>>

InitTopics ==
    /\ fs = [q \in AllPaths |-> Absent]
    /\ InitRest

NextTopics ==
    \/ TopicsStart
    \/ TopicCheck
    \/ TopicFetchPortrait
    \/ TopicFetchLandscape
    \/ TopicsEnd

SpecTopics == InitTopics /\ [][NextTopics]_vars

(***************************************************************************)
(* app.sort_recommendations_by_impact(boxes_data).  A box is a dict with a *)
(* label and, when has_impact, the key impact.                             *)
(***************************************************************************)

Box(impact) == [label |-> "texto", has_impact |-> TRUE, impact |-> impact]
BoxWithoutImpact == [label |-> "texto", has_impact |-> FALSE, impact |-> ""]

\* the boxes the lists are made of
BoxKinds ==
    {Box("High"), Box("high"), Box("MEDIUM"), Box("Low"), Box("urgent"), BoxWithoutImpact}

\* str.lower() on the impact strings in use
Lower(str) ==
    IF str \in {"High", "HIGH", "high"} THEN "high"
    ELSE IF str \in {"Medium", "MEDIUM", "medium"} THEN "medium"
    ELSE IF str \in {"Low", "LOW", "low"} THEN "low"
    ELSE str

\* [(i, box) for i, box in enumerate(boxes_data)]
Enumerate(boxes) == [i \in DOMAIN boxes |-> <<i - 1, boxes[i]>>]

\* a variant that compares the impact as it is written
GetImpactPriorityCaseSensitive(box_tuple) ==
    LET box == box_tuple[2]
        impact == IF box.has_impact THEN box.impact ELSE ""
    IN  IF impact = "high" THEN 0 ELSE IF impact = "medium" THEN 1 ELSE 2

\* get_impact_priority(box_tuple)
GetImpactPriority(box_tuple) ==
    LET box == box_tuple[2]
        impact == Lower(IF box.has_impact THEN box.impact ELSE "")
    IN  IF impact = "high" THEN 0 ELSE IF impact = "medium" THEN 1 ELSE 2

\* t put into the sorted list s, after every element whose key is not
\* greater than its own
RECURSIVE InsertByKey(_, _)
InsertByKey(s, t) ==
    IF s = <<>> THEN <<t>>
    ELSE IF GetImpactPriority(Head(s)) <= GetImpactPriority(t)
    THEN <<Head(s)>> \o InsertByKey(Tail(s), t)
    ELSE <<t>> \o s

\* sorted(s, key=get_impact_priority): a stable sort
RECURSIVE Sorted(_)
Sorted(s) == IF s = <<>> THEN <<>> ELSE InsertByKey(Sorted(Front(s)), s[Len(s)])

\* sort_recommendations_by_impact(boxes_data)
SortRecommendationsByImpact(boxes_data) ==
    IF ~Truthy(boxes_data) THEN <<>> ELSE Sorted(Enumerate(boxes_data.val))

\* the function is applied to its argument
SortStep ==
    /\ sorting.pc = "called"
    /\ sorting' = [sorting EXCEPT !.pc = "returned",
                                  !.result = SortRecommendationsByImpact(sorting.boxes_data)]
    /\ UNCHANGED <<fs, batchVars, run, fetch, pipeline, topics>>

\* the call, with None or any list of at most MaxBoxes boxes
InitSort ==
    /\ fs = [q \in AllPaths |-> Absent]
    /\ BatchIdle
    /\ run = [p \in Procs |-> NoRun]
    /\ fetch = NoFetch
    /\ pipeline = NoPipeline
    /\ topics = NoTopics
    /\ \E b \in {None} \cup {Some(l) : l \in SeqsUpTo(BoxKinds, MaxBoxes)} :
          sorting = [pc |-> "called", boxes_data |-> b, result |-> <<>>]

NextSort == SortStep

SpecSort == InitSort /\ [][NextSort]_vars

(***************************************************************************)
(* Properties.                                                             *)
(***************************************************************************)

\* the call has returned a record
ReturnedRecord == apc = "returned" /\ ~ret.none

\* the call has returned None
ReturnedNone == apc = "returned" /\ ret.none

\* the line the call logged last
LastLog == log[Len(log)]

\* the keys of the record whose name ends in _normalized
NormalizedKeys ==
    {"entropy_normalized", "color_entropy_normalized", "edge_density_normalized",
     "color_variance_normalized"}

\* a float between 0.0 and 1.0
InUnit(x) == 0 <= x.v /\ x.v <= Pow10(x.d)

\* C1: every *_normalized field of a returned record lies in [0.0, 1.0].
NormalizedInUnit ==
    ReturnedRecord =>
        \A k \in NormalizedKeys :
            k \in DictKeys(ret.val) /\ InUnit(DictGet(ret.val, k))

\* a record of an image with an edge, with the variance at its cap and the
\* entropy strictly inside the interval
NormalizedWitness ==
    /\ ReturnedRecord
    /\ DictGet(ret.val, "edge_count").v > 0
    /\ DictGet(ret.val, "color_variance_normalized").v = 10000
    /\ DictGet(ret.val, "entropy_normalized").v \in 1..9999

\* the file at path decodes to at least one pixel
Decodable(path) == fs[path].kind = "image" /\ Len(fs[path].pixels) > 0

\* C2: no record for a missing, undecodable or zero-pixel file; the checks
\* run in the order path exists, decode succeeded, pixel count > 0, and
\* each of them returns before any statistic is computed.
ValidationBeforeStatistics ==
    /\ ReturnedRecord => Exists(fs, img_path) /\ Decodable(img_path)
    /\ DOMAIN loc \cap StatNames # {} =>
          Exists(fs, img_path) /\ "img" \in DOMAIN loc /\ loc.pixel_count > 0
    /\ "img" \in DOMAIN loc => Exists(fs, img_path)
    /\ "pixel_count" \in DOMAIN loc => "img" \in DOMAIN loc
    /\ (ReturnedNone /\ LastLog.msg = "Image not found") =>
          ~Exists(fs, img_path) /\ DOMAIN loc = {}
    /\ (ReturnedNone /\ LastLog.msg = "Could not load image") =>
          Exists(fs, img_path) /\ DOMAIN loc = {}
    /\ (ReturnedNone /\ LastLog.msg = "Invalid image dimensions (0 pixels)") =>
          Exists(fs, img_path) /\ DOMAIN loc = {"img"} /\ Len(loc.img) = 0

\* the zero-pixel check has returned None
ZeroPixelsRejected ==
    ReturnedNone /\ LastLog.msg = "Invalid image dimensions (0 pixels)"

\* C3: the thresholds handed to the edge detector satisfy
\* 0 <= lower < upper <= 255.
ThresholdsNonDegenerate ==
    "lower" \in DOMAIN loc => 0 <= loc.lower /\ loc.lower < loc.upper /\ loc.upper <= 255

\* the three failure kinds of the specification, by the line logged
KindOf(msg) ==
    IF msg = "Image not found" THEN "FileNotFound"
    ELSE IF msg \in {"Could not load image", "Invalid image dimensions (0 pixels)"}
    THEN "InvalidImage"
    ELSE "DecodeError"

\* C4 as stated: the caller can tell the failure kinds apart, two failures
\* of different kinds being reported to it by different values.
FailureKindsDistinguishable ==
    \A f, g \in reported : KindOf(f.msg) # KindOf(g.msg) => f.value # g.value

ExceptionMessages == {"OpenCV error analyzing", "Unexpected error analyzing"}

\* C4, amended: every failure is reported to the caller by the same value,
\* None; the kind shows in the logged line alone, which names the path:
\* "Image not found" for a missing path, "Could not load image" when the
\* decoder gives nothing, "Invalid image dimensions" for zero pixels, and
\* one of the two exception lines for a library error; in each case
\* extraction stops before the record is complete.
FailuresReturnNone ==
    /\ \A f \in reported : f.value = None
    /\ ReturnedNone =>
          /\ LastLog.level = "error"
          /\ LastLog.path = img_path
          /\ "color_entropy_normalized" \notin DOMAIN loc
          /\ ~Exists(fs, img_path) => LastLog.msg = "Image not found"
          /\ (Exists(fs, img_path) /\ ~Decodable(img_path)) =>
                LastLog.msg \in {"Could not load image", "Invalid image dimensions (0 pixels)"}
                                  \cup ExceptionMessages
          /\ Decodable(img_path) => LastLog.msg \in ExceptionMessages
          /\ LastLog.msg = "OpenCV error analyzing" => Exists(fs, img_path)

\* failures of all three kinds have been reported
ThreeKindsReported == Cardinality({KindOf(f.msg) : f \in reported}) = 3

\* the twelve keys of the dict the code builds
RecordKeys ==
    {"filename", "image_size", "entropy", "color_entropy", "edge_count", "edge_density",
     "color_variance", "histogram_std", "entropy_normalized", "color_entropy_normalized",
     "edge_density_normalized", "color_variance_normalized"}

\* C5: no exception leaves analyze_visual_complexity; it returns None or a
\* record with every field.
NoExceptionEscapes ==
    /\ raised = "none"
    /\ apc = "returned" =>
          \/ ret = None
          \/ ~ret.none /\ DictKeys(ret.val) = RecordKeys /\ Len(ret.val) = Cardinality(RecordKeys)

\* an exception other than cv2.error, raised after some statistics were
\* computed, has been turned into None
ExceptionTurnedIntoNone ==
    /\ ReturnedNone
    /\ LastLog.msg = "Unexpected error analyzing"
    /\ "hist" \in DOMAIN loc

\* the fields section 3 of the specification lists
SpecFields ==
    {"filename", "image_size", "entropy", "color_entropy", "edge_count", "edge_density",
     "color_variance", "histogram_std", "entropy_normalized", "color_entropy_normalized",
     "color_variance_normalized"}

\* the keys of a JSON text
TextKeys(text) == {text[i][1] : i \in DOMAIN text}

\* C6 as stated: the record, and the sidecar written from it, hold exactly
\* the fields of section 3.
RecordHasExactlySpecFields ==
    /\ ReturnedRecord => DictKeys(ret.val) = SpecFields
    /\ \A p \in SidecarPaths : fs[p].kind = "text" => TextKeys(fs[p].text) = SpecFields

\* C6, amended: the record, and the sidecar written from it, hold exactly
\* the fields of section 3 and one more, edge_density_normalized, whose
\* value is that of edge_density.
RecordHasSpecFieldsAndEdgeDensityNormalized ==
    /\ ReturnedRecord =>
          /\ DictKeys(ret.val) = SpecFields \cup {"edge_density_normalized"}
          /\ Len(ret.val) = Cardinality(SpecFields) + 1
          /\ ValueEq(DictGet(ret.val, "edge_density_normalized"),
                     DictGet(ret.val, "edge_density"))
    /\ \A p \in SidecarPaths :
          fs[p].kind = "text" =>
              /\ TextKeys(fs[p].text) = SpecFields \cup {"edge_density_normalized"}
              /\ Len(fs[p].text) = Cardinality(SpecFields) + 1

\* a sidecar has been written from a record with an edge
SidecarWritten ==
    \E p \in SidecarPaths :
        /\ fs[p].kind = "text"
        /\ ~metrics.none
        /\ DictGet(metrics.val, "edge_density").v > 0

\* the sidecar paths of the calls that returned a record, in call order
RECURSIVE SidecarsOf(_, _)
SidecarsOf(paths, oks) ==
    IF oks = <<>> THEN <<>>
    ELSE LET n == Len(oks)
             before == SidecarsOf(paths, Front(oks))
         IN  IF oks[n] THEN Append(before, MainOutputFile(paths[n])) ELSE before

\* C7: a batch attempts every image of its list once, in list order,
\* whatever fails, and never stops before the end of the list;
\* analyze_images returns the sidecar paths of exactly the images whose
\* analysis succeeded, in the same order, and the analyzer script counts
\* them.
BatchContinuesPastFailures ==
    /\ Len(attempts) <= Len(image_paths)
    /\ attempts = SubSeq(image_paths, 1, Len(attempts))
    /\ Len(succ) = IF apc = "idle" THEN Len(attempts) ELSE Len(attempts) - 1
    /\ ReturnedNone => ENABLED (AnalyzeImagesStep \/ AnalyzerMainStep)
    /\ op \in {"analyze_images_done", "analyzer_main_done"} =>
          attempts = image_paths /\ Len(succ) = Len(image_paths)
    /\ op \in {"analyze_images", "analyze_images_done"} =>
          metric_paths = SidecarsOf(attempts, succ)
    /\ op \in {"analyzer_main", "analyzer_main_done"} =>
          /\ processed_count = Cardinality({i \in DOMAIN succ : succ[i]})
          /\ error_count = Cardinality({i \in DOMAIN succ : ~succ[i]})

\* a batch is over in which an image failed and a later one succeeded
BatchWentOnAfterFailure ==
    /\ op = "analyze_images_done"
    /\ \E i, j \in DOMAIN succ : i < j /\ ~succ[i] /\ succ[j]

SavedOk(path) ==
    \E i \in DOMAIN log :
        log[i].msg = "Metrics successfully saved to" /\ log[i].path = path

\* C9: the file save_metrics_to_json wrote parses back to a dict equal to
\* the record in every field.
SidecarRoundTrip ==
    \A p \in SidecarPaths :
        (apc = "idle" /\ ~metrics.none /\ SavedOk(p)) =>
            /\ fs[p].kind = "text"
            /\ DictEq(JsonLoad(fs[p].text), metrics.val)

\* a record with a four-decimal fraction has been written
RoundTripWitness ==
    \E p \in SidecarPaths :
        /\ apc = "idle" /\ ~metrics.none /\ SavedOk(p)
        /\ DictGet(metrics.val, "color_variance_normalized").v % 100 # 0

\* C10: no step of analyze_visual_complexity changes a file or the state of
\* its caller.
AnalysisHasNoSideEffect ==
    [][apc \notin {"idle", "returned"} =>
          /\ fs' = fs
          /\ UNCHANGED <<op, image_paths, idx, metrics, metric_paths, processed_count,
                         error_count>>]_vars

\* a record has been returned and no sidecar exists
RecordWithoutSidecar ==
    /\ ReturnedRecord
    /\ \A p \in SidecarPaths : fs[p] = Absent
    /\ Decodable(img_path)

\* the pixels of the file the call reads
SourcePixels == fs[img_path].pixels

\* every pixel of the row has the same value
Uniform(img) == Cardinality(Range(img)) = 1

\* C12: the record of an image whose pixels all have the same value has
\* entropy 0.0, color_variance 0.0, both normalized forms 0.0 and
\* edge_count 0, the thresholds 0 and 0 of a black image included.
UniformImageHasNoDetail ==
    (ReturnedRecord /\ Uniform(SourcePixels)) =>
        /\ DictGet(ret.val, "entropy").v = 0
        /\ DictGet(ret.val, "color_variance").v = 0
        /\ DictGet(ret.val, "entropy_normalized").v = 0
        /\ DictGet(ret.val, "color_variance_normalized").v = 0
        /\ DictGet(ret.val, "edge_count").v = 0

\* the record of a black image of two pixels, both thresholds 0
UniformBlackAnalysed ==
    /\ ReturnedRecord
    /\ SourcePixels = <<Black, Black>>
    /\ loc.lower = 0 /\ loc.upper = 0

\* width * height of the record's image_size
PixelCountOf(record) ==
    DictGet(record, "image_size").s.w * DictGet(record, "image_size").s.h

\* C13 as stated: edge_density is exactly the quotient edge_count /
\* pixel_count of the record's own values.
EdgeDensityIsExactQuotient ==
    ReturnedRecord =>
        LET d == DictGet(ret.val, "edge_density")
        IN  d.v * PixelCountOf(ret.val) = DictGet(ret.val, "edge_count").v * Pow10(d.d)

\* C13, amended: edge_density is the quotient edge_count / pixel_count
\* rounded to 6 decimals, at most 0.0000005 away from it;
\* 0 <= edge_count <= pixel_count and 0 <= edge_density <= 1.
EdgeDensityIsRoundedQuotient ==
    ReturnedRecord =>
        LET d == DictGet(ret.val, "edge_density")
            edge_count == DictGet(ret.val, "edge_count").v
            pixel_count == PixelCountOf(ret.val)
        IN  /\ d.d <= 6
            /\ 2 * Abs(d.v * Pow10(6 - d.d) * pixel_count - edge_count * 1000000)
                  <= pixel_count
            /\ 0 <= edge_count /\ edge_count <= pixel_count
            /\ InUnit(d)

\* one edge pixel out of three: the density is 0.333333
OneEdgeInThree ==
    /\ ReturnedRecord
    /\ DictGet(ret.val, "edge_count").v = 1
    /\ PixelCountOf(ret.val) = 3
    /\ DictGet(ret.val, "edge_density").v = 333333

\* C14: every sidecar a caller writes is named <basename>_metrics.json,
\* basename being the image's file name without its extension.
SidecarNamedAfterImage ==
    \A p \in SidecarPaths :
        (apc = "idle" /\ SavedOk(p)) => p = MetricsFile(SplitextBase(img_path))

\* the three channels of every pixel are equal: a grayscale source
GrayscaleSource(img) == \A i \in DOMAIN img : img[i][1] = img[i][2] /\ img[i][2] = img[i][3]

\* C16: color_entropy is the mean of the three channel entropies, rounded
\* to 4 decimals; for a grayscale source it equals the field entropy;
\* color_entropy_normalized is min(color_entropy / 8.0, 1.0), rounded to 4
\* decimals.
ColorEntropyIsChannelMean ==
    ReturnedRecord =>
        LET img == SourcePixels
            ce == DictGet(ret.val, "color_entropy")
            sum3 == EntropyTimesN(Channel(img, 1)) + EntropyTimesN(Channel(img, 2))
                      + EntropyTimesN(Channel(img, 3))
        IN  /\ ce.d = 4
            /\ 2 * Abs(ce.v * 300 * Len(img) - sum3) <= 300 * Len(img)
            /\ GrayscaleSource(img) => ValueEq(ce, DictGet(ret.val, "entropy"))
            /\ DictGet(ret.val, "color_entropy_normalized").v
                  = Min2(RoundDiv(ce.v, MAX_ENTROPY), 10000)

\* the record of a red and a white pixel: the channel mean is 0.6667, the
\* grayscale entropy 1.0
ColorEntropyDiffersFromEntropy ==
    /\ ReturnedRecord
    /\ ~GrayscaleSource(SourcePixels)
    /\ DictGet(ret.val, "color_entropy").v = 6667
    /\ DictGet(ret.val, "entropy").v = 10000

\* grayscale rows over more levels than the palette gives
GrayRows == UNION {[1..w -> {0, 1, 127, 128, 254, 255}] : w \in 1..MaxWidth}

\* C17: the population variance of the grayscale values never exceeds
\* MAX_VARIANCE = 255^2 / 4, so color_variance_normalized is variance /
\* MAX_VARIANCE and the cap at 1.0 changes nothing.
MaxVarianceIsNeverExceeded ==
    /\ "variance_normalized" \in DOMAIN loc =>
          LET n == Len(loc.gray)
              s1 == SumSeq(loc.gray)
              s2 == SumSeq([i \in DOMAIN loc.gray |-> loc.gray[i] * loc.gray[i]])
          IN  /\ 4 * (n * s2 - s1 * s1) <= MaxGray * MaxGray * n * n
              /\ 4 * loc.variance.v <= 100 * MaxGray * MaxGray
              /\ loc.variance_normalized.v = RoundDiv(loc.variance.v * 16, 2601)
    /\ apc = "hist" =>
          \A gray \in GrayRows :
              /\ 4 * Variance2(gray).v <= 100 * MaxGray * MaxGray
              /\ NormalizeVariance(Variance2(gray)).v = RoundDiv(Variance2(gray).v * 16, 2601)

\* half the pixels 0 and half 255: the variance is 16256.25
VarianceAtItsMaximum ==
    /\ "variance_normalized" \in DOMAIN loc
    /\ loc.variance.v = 1625625
    /\ loc.variance_normalized.v = 10000

\* C11: two overlapping runs of process_uploaded_image do not interfere:
\* the metrics the agent reads in a run are those the run computed from its
\* own image and saved, and no path is used by both runs.
RunsDoNotInterfere ==
    /\ \A p \in Procs :
          (run[p].saved /\ ~run[p].forwarded.none) =>
              DictEq(run[p].forwarded.val, Pop(run[p].metrics.val, "filename"))
    /\ run[1].touched \cap run[2].touched = {}

\* C15: analyze_metrics only reads the sidecar: the step leaves the file at
\* metrics_json_path as it was, whether it succeeds or fails, and what it
\* sends to the model is every field of the sidecar but filename, with the
\* value the sidecar gives it.
AnalyzeMetricsOnlyReads ==
    [][\A p \in Procs :
          (run[p].pc = "analyze_metrics" /\ run'[p].pc # "analyze_metrics") =>
              LET path == run[p].metrics_json_path
              IN  /\ fs'[path] = fs[path]
                  /\ fs[path].kind # "text" => run'[p].forwarded.none /\ fs' = fs
                  /\ fs[path].kind = "text" =>
                        LET sidecar == JsonLoad(fs[path].text)
                            sent == run'[p].forwarded
                        IN  /\ ~sent.none
                            /\ DictKeys(sent.val) = DictKeys(sidecar) \ {"filename"}
                            /\ Len(sent.val) = Cardinality(DictKeys(sent.val))
                            /\ \A k \in DictKeys(sent.val) :
                                  ValueEq(DictGet(sent.val, k), DictGet(sidecar, k))]_vars

\* one run has sent a sidecar that had no filename, the other a sidecar
\* that had one
FilenameDroppedPresentOrNot ==
    \E p, q \in Procs :
        /\ ~run[p].forwarded.none /\ DictKeys(run[p].forwarded.val) = {"entropy"}
        /\ ~run[q].forwarded.none /\ run[q].saved
        /\ DictKeys(run[q].forwarded.val) = RecordKeys \ {"filename"}

\* s is the beginning of t
IsPrefix(s, t) == Len(s) <= Len(t) /\ s = SubSeq(t, 1, Len(s))

\* C19: process_image runs its stages in the order analyze_metrics,
\* generate_bounding_boxes, visualize_bounding_boxes, save; a failed stage
\* is the last one run, gives (None, None) and leaves no
\* <base>_processed.png; the two components of the result are both None or
\* both paths, and both paths exactly when the four stages succeeded.
ProcessImageStagesInOrder ==
    \A p \in Procs :
        LET r == run[p]
            processed == ProcessedFile(SplitDotFirst(TmpImage(p)))
            over == r.pc \in {"agent_returned", "finally", "done"}
        IN  /\ IsPrefix(r.stages, StageOrder)
            /\ r.failed # "" =>
                  /\ r.stages[Len(r.stages)] = r.failed
                  /\ over
                  /\ r.result.analysis.none /\ r.result.image.none
                  /\ fs[processed].kind = "absent"
            /\ r.result.analysis.none <=> r.result.image.none
            /\ ~r.result.image.none =>
                  /\ r.stages = StageOrder /\ r.failed = ""
                  /\ r.result.image.val = processed
                  /\ fs[processed].kind = "png"
            /\ (over /\ r.stages # <<>> /\ r.failed = "") => ~r.result.image.none

\* a call in which generate_bounding_boxes failed after analyze_metrics
\* succeeded, has returned
SecondStageFailed ==
    \E p \in Procs :
        /\ run[p].pc = "done"
        /\ run[p].failed = "generate_bounding_boxes"
        /\ run[p].stages = SubSeq(StageOrder, 1, 2)

\* C18: the integer fetch_and_save_images returns is the number of
\* requests it sent, the search and every download, those that timed out
\* or failed included; without a key it is 0, no request is sent and no
\* file written.
ReturnCountsRequests ==
    fetch.pc = "returned" =>
        /\ fetch.ret = fetch.issued
        /\ fetch.api_key = "" =>
              fetch.ret = 0 /\ fetch.issued = 0 /\ fetch.files_written = 0

\* the level of a box: 0 for high, 1 for medium, 2 for anything else or
\* nothing, whatever the case of the letters
ImpactLevel(box) ==
    IF box.has_impact /\ Lower(box.impact) = Lower("High") THEN 0
    ELSE IF box.has_impact /\ Lower(box.impact) = Lower("Medium") THEN 1
    ELSE 2

\* C20: the result is a permutation of the pairs (index, box) of the
\* input, each index the position of its box in the input; High comes
\* first, then Medium, then everything else, the case of the letters
\* ignored; boxes of one level keep their order; None and [] give [].
SortIsStablePermutationByImpact ==
    sorting.pc = "returned" =>
        LET input == sorting.boxes_data
            out == sorting.result
        IN  IF input.none \/ Len(input.val) = 0 THEN out = <<>>
            ELSE /\ Len(out) = Len(input.val)
                 /\ {out[i][1] : i \in DOMAIN out} = 0..(Len(input.val) - 1)
                 /\ \A i \in DOMAIN out : out[i][2] = input.val[out[i][1] + 1]
                 /\ \A i, j \in DOMAIN out :
                       i < j =>
                          /\ ImpactLevel(out[i][2]) <= ImpactLevel(out[j][2])
                          /\ ImpactLevel(out[i][2]) = ImpactLevel(out[j][2]) =>
                                out[i][1] < out[j][1]

\* [Low, high, High] has been sorted into [(1, high), (2, High), (0, Low)]
SortedThreeBoxes ==
    /\ sorting.pc = "returned"
    /\ sorting.boxes_data = Some(<<Box("Low"), Box("high"), Box("High")>>)
    /\ sorting.result = << <<1, Box("high")>>, <<2, Box("High")>>, <<0, Box("Low")>> >>

\* C21: every image main.process_with_agent hands to agent.process_image
\* goes with the sidecar of that image: the path is the one analysis gave
\* the image, and what this run wrote there was computed from the image.
EachImageWithItsOwnSidecar ==
    \A k \in DOMAIN pipeline.calls :
        LET call == pipeline.calls[k]
        IN  /\ call.metrics_json_path = MainOutputFile(call.image)
            /\ ~call.origin.none => call.origin.val = call.image

\* C22: when process_image succeeds, the analysis_json_path it returns is
\* the path of the file analyze_metrics wrote during the call.
ReturnedAnalysisIsTheOneWritten ==
    \A p \in Procs :
        ~run[p].result.analysis.none => run[p].written = run[p].result.analysis

\* C23: in one batch of main.analyze_images, two images with different file
\* names have their records written to different sidecar paths.
DifferentNamesDifferentSidecars ==
    op \in {"analyze_images", "analyze_images_done"} =>
        \A i, j \in DOMAIN succ :
            (succ[i] /\ succ[j] /\ Basename(attempts[i]) # Basename(attempts[j]))
                => MainOutputFile(attempts[i]) # MainOutputFile(attempts[j])

\* C27: process_existing_images does not analyse an image whose sidecar
\* exists: the turn of the loop leaves every file as it is, calls
\* analyze_visual_complexity for nothing and appends the sidecar's path to
\* the list the agent gets; and no image passed over so was ever analysed.
ExistingSidecarIsKept ==
    /\ [](\A k \in pipeline.kept :
             /\ \A n \in DOMAIN attempts : attempts[n] # image_paths[k]
             /\ \E n \in DOMAIN metric_paths : metric_paths[n] = MainOutputFile(image_paths[k]))
    /\ [][(/\ pipeline.pc = "analyze"
           /\ pipeline.mode = "process_existing_images"
           /\ idx <= Len(image_paths)
           /\ Exists(fs, MainOutputFile(image_paths[idx])))
          => (/\ fs' = fs
              /\ attempts' = attempts
              /\ metric_paths' = Append(metric_paths, MainOutputFile(image_paths[idx])))]_vars

\* the sidecar of b.jpg was there, b.jpg was passed over, and the agent got
\* the old sidecar for it
OldSidecarHandedToAgent ==
    /\ pipeline.mode = "process_existing_images"
    /\ fs[MainOutputFile(ImgC)] = OldSidecar
    /\ \E k \in pipeline.kept : image_paths[k] = ImgC
    /\ \E n \in DOMAIN pipeline.calls :
          /\ pipeline.calls[n].image = ImgC
          /\ pipeline.calls[n].metrics_json_path = MainOutputFile(ImgC)

\* C26: process_uploaded_image deletes the temporary file it created on
\* every exit path: once the call is over, by a return or by an exception,
\* the file does not exist.
TempFileDeletedOnEveryExit ==
    \A p \in Procs : run[p].pc \in {"done", "raised"} => ~Exists(fs, TmpImage(p))

\* C25: one call fetch_and_save_images(per_page = n) saves at most n images
\* and sends at most 1 + n requests, whatever the search response lists and
\* whichever downloads fail.
FetchWithinItsEstimate ==
    fetch.pc # "idle" =>
        /\ fetch.files_written <= fetch.per_page
        /\ fetch.issued <= 1 + fetch.per_page
        /\ fetch.requests_made <= 1 + fetch.per_page

\* C24: in the topic loop requests_this_hour never exceeds
\* RATE_LIMIT_THRESHOLD, and the wait_time the script sleeps is never
\* negative.
CounterWithinThreshold ==
    /\ topics.requests_this_hour <= RATE_LIMIT_THRESHOLD
    /\ topics.wait_time >= 0

====
